---- MODULE Spec2Model ----
(***************************************************************************)
(* A model of the Python implementation of protobuf-table                  *)
(* (src/python/pb_table.py and src/python/data_encoder.py): the transform  *)
(* engine, the row codec at byte level, and the container operations       *)
(* encode_table, decode_table, add_table, get_table and get_index.         *)
(***************************************************************************)
EXTENDS Integers, Sequences, FiniteSets, TLC

(***************************************************************************)
(* Python numbers.  A Python int has any size and a Python float is an     *)
(* IEEE-754 double, so neither fits the integers of the model checker.  A  *)
(* natural number is a little-endian sequence of limbs of 15 bits without  *)
(* a high zero limb (<<>> is 0), and a Python value is a record            *)
(*     [t |-> type, s |-> sign bit, m |-> magnitude, e |-> binary exponent]  *)
(* of value (-1)^s * m * 2^e with m odd (or empty for zero).  A float      *)
(* operation computes the exact result and rounds it to 53 bits, ties to   *)
(* even, as the hardware does; exponent overflow, subnormals, NaN and the  *)
(* sign of zero are outside the values the model draws.                    *)
(* A str is [t |-> "str", m |-> its bytes], a bool [t |-> "bool"] with m   *)
(* <<1>> or <<>>, None is [t |-> "none"]: "not v" is m = <<>> throughout.  *)
(***************************************************************************)
Limb == 2 ^ 15

\* a local variable of the source: the body with the value bound to its name
With(value, body(_)) ==
    body(value)

With2(value1, value2, body(_, _)) ==
    body(value1, value2)

RECURSIVE NatToBits(_)
NatToBits(n) ==
    IF n = 0 THEN <<>> ELSE <<n % Limb>> \o NatToBits(n \div Limb)

\* for a magnitude below 2^31 only
RECURSIVE BitsToNat(_)
BitsToNat(b) ==
    IF b = <<>> THEN 0 ELSE b[1] + Limb * BitsToNat(Tail(b))

MaxOf(S) ==
    CHOOSE x \in S : \A y \in S : y <= x

MinOf(S) ==
    CHOOSE x \in S : \A y \in S : x <= y

BTrim(b) ==
    LET nz == {i \in 1..Len(b) : b[i] # 0}
    IN  IF nz = {} THEN <<>> ELSE SubSeq(b, 1, MaxOf(nz))

BRest(b) ==
    IF b = <<>> THEN <<>> ELSE Tail(b)

BHead(b) ==
    IF b = <<>> THEN 0 ELSE b[1]

RECURSIVE BAddC(_, _, _)
BAddC(a, b, c) ==
    IF a = <<>> /\ b = <<>>
    THEN (IF c = 0 THEN <<>> ELSE <<c>>)
    ELSE LET t == BHead(a) + BHead(b) + c
         IN  <<t % Limb>> \o BAddC(BRest(a), BRest(b), t \div Limb)

BAdd(a, b) ==
    BAddC(a, b, 0)

RECURSIVE BSubC(_, _, _)
BSubC(a, b, c) ==
    IF a = <<>> THEN <<>>
    ELSE LET t == BHead(a) - BHead(b) - c
         IN  <<t % Limb>> \o BSubC(BRest(a), BRest(b), IF t < 0 THEN 1 ELSE 0)

\* a - b for a >= b
BSub(a, b) ==
    BTrim(BSubC(a, b, 0))

BLess(a, b) ==
    \/ Len(a) < Len(b)
    \/ /\ Len(a) = Len(b)
       /\ \E i \in 1..Len(a) :
            /\ a[i] < b[i]
            /\ \A j \in (i + 1)..Len(a) : a[j] = b[j]

\* a * k + c for a limb k
RECURSIVE BMulSmall(_, _, _)
BMulSmall(a, k, c) ==
    IF a = <<>> THEN (IF c = 0 THEN <<>> ELSE <<c>>)
    ELSE LET t == a[1] * k + c
         IN  <<t % Limb>> \o BMulSmall(Tail(a), k, t \div Limb)

RECURSIVE BMul(_, _)
BMul(a, b) ==
    IF a = <<>> \/ b = <<>> THEN <<>>
    ELSE LET rest == BMul(Tail(a), b)
         IN  BAdd(BTrim(BMulSmall(b, a[1], 0)),
                  IF rest = <<>> THEN <<>> ELSE <<0>> \o rest)

\* a * 2^k
BShl(b, k) ==
    IF b = <<>> THEN <<>>
    ELSE [i \in 1..(k \div 15) |-> 0] \o BMulSmall(b, 2 ^ (k % 15), 0)

\* a divided by a limb d, from the high limb down: [q, r]
RECURSIVE BDivSmallStep(_, _, _)
BDivSmallStep(a, d, i) ==
    IF i = 0 THEN [q |-> <<>>, r |-> 0]
    ELSE LET prev == BDivSmallStep(a, d, i - 1)
             t    == prev.r * Limb + a[Len(a) - i + 1]
         IN  [q |-> <<t \div d>> \o prev.q, r |-> t % d]

\* floor(a / 2^k)
BShr(b, k) ==
    IF k \div 15 >= Len(b) THEN <<>>
    ELSE BTrim(BDivSmallStep(SubSeq(b, k \div 15 + 1, Len(b)),
                             2 ^ (k % 15), Len(b) - k \div 15).q)

\* a mod 2^k
BLow(b, k) ==
    IF k \div 15 >= Len(b) THEN b
    ELSE BTrim(SubSeq(b, 1, k \div 15) \o <<b[k \div 15 + 1] % (2 ^ (k % 15))>>)

\* the number of bits of a: 0 for 0
BLen(b) ==
    IF b = <<>> THEN 0
    ELSE 15 * (Len(b) - 1)
         + (CHOOSE k \in 1..15 : 2 ^ (k - 1) <= b[Len(b)] /\ b[Len(b)] < 2 ^ k)

\* bit i of a, the low bit being bit 0
BBit(b, i) ==
    IF i \div 15 >= Len(b) THEN 0
    ELSE (b[i \div 15 + 1] \div (2 ^ (i % 15))) % 2

\* long division of a by b when a < b * 2^h, by halves: [q, r]
RECURSIVE BDivRec(_, _, _)
BDivRec(a, b, h) ==
    IF h = 0 THEN [q |-> <<>>, r |-> a]
    ELSE IF h = 1
    THEN (IF BLess(a, b) THEN [q |-> <<>>, r |-> a]
          ELSE [q |-> <<1>>, r |-> BSub(a, b)])
    ELSE With(BDivRec(BShr(a, h \div 2), b, h - h \div 2), LAMBDA d1 :
         With(BDivRec(BAdd(BShl(d1.r, h \div 2), BLow(a, h \div 2)), b, h \div 2),
              LAMBDA d2 :
         [q |-> BAdd(BShl(d1.q, h \div 2), d2.q), r |-> d2.r]))

BDivMod(a, b) ==
    BDivRec(a, b, MaxOf({0, BLen(a) - BLen(b) + 1}))

\* the number of low zero bits of a nonzero a
LowZeros(b) ==
    LET bits(i) == 15 * (i - 1) + MaxOf({k \in 0..14 : b[i] % (2 ^ k) = 0})
    IN  bits(MinOf({j \in 1..Len(b) : b[j] # 0}))

MkNum(t, s, m, e) ==
    IF m = <<>> THEN [t |-> t, s |-> 0, m |-> <<>>, e |-> 0]
    ELSE With(LowZeros(m), LAMBDA z :
         [t |-> t, s |-> s, m |-> BShr(m, z), e |-> e + z])

\* the float of p bits nearest to m * 2^e (+ a little, if sticky), ties to even
RoundBits(p, s, m, e, sticky) ==
    With(BLen(m) - p, LAMBDA k :
    MkNum("float", s,
          IF k <= 0 THEN m
          ELSE With(BShr(m, k), LAMBDA q :
               IF BBit(m, k - 1) = 1
                  /\ (sticky \/ BLow(m, k - 1) # <<>> \/ BBit(q, 0) = 1)
               THEN BAdd(q, <<1>>) ELSE q),
          IF k <= 0 THEN e ELSE e + k))

\* the float of p bits nearest to (n / d) * 2^e
RoundDiv(p, s, n, d, e) ==
    IF n = <<>> THEN [t |-> "float", s |-> 0, m |-> <<>>, e |-> 0]
    ELSE With(MaxOf({0, p + 2 + BLen(d) - BLen(n)}), LAMBDA shift :
         With(BDivMod(BShl(n, shift), d), LAMBDA dm :
         RoundBits(p, s, dm.q, e - shift, dm.r # <<>>)))

DoubleBits == 53

SingleBits == 24

PyNone ==
    [t |-> "none", s |-> 0, m |-> <<>>, e |-> 0]

PyBool(b) ==
    [t |-> "bool", s |-> 0, m |-> IF b THEN <<1>> ELSE <<>>, e |-> 0]

PyStr(bytes) ==
    [t |-> "str", s |-> 0, m |-> bytes, e |-> 0]

\* the Python int n, for n a small integer
PyInt(n) ==
    MkNum("int", IF n < 0 THEN 1 ELSE 0, NatToBits(IF n < 0 THEN -n ELSE n), 0)

\* the Python int n * 10^k: a literal too large for the checker's integers
PyIntE(n, k) ==
    MkNum("int", IF n < 0 THEN 1 ELSE 0,
          BMul(NatToBits(IF n < 0 THEN -n ELSE n), NatToBits(10 ^ k)), 0)

\* the Python float literal n / 10^q: the double nearest to it
PyDec(n, q) ==
    RoundDiv(DoubleBits, IF n < 0 THEN 1 ELSE 0,
             NatToBits(IF n < 0 THEN -n ELSE n), NatToBits(10 ^ q), 0)

IsNum(v) ==
    v.t \in {"int", "float", "bool"}

IsFloat(v) ==
    v.t = "float"

\* Python's truthiness: "not v" is ~Truthy(v)
Truthy(v) ==
    v.m # <<>>

\* the exact sum of two dyadic numbers
AddExact(a, b) ==
    With(IF a.e < b.e THEN a.e ELSE b.e, LAMBDA e :
    With2(BShl(a.m, a.e - e), BShl(b.m, b.e - e), LAMBDA ma, mb :
    IF a.s = b.s THEN [s |-> a.s, m |-> BAdd(ma, mb), e |-> e]
    ELSE IF BLess(ma, mb) THEN [s |-> b.s, m |-> BSub(mb, ma), e |-> e]
    ELSE [s |-> a.s, m |-> BSub(ma, mb), e |-> e]))

PyAdd(a, b) ==
    With(AddExact(a, b), LAMBDA r :
    IF IsFloat(a) \/ IsFloat(b)
    THEN RoundBits(DoubleBits, r.s, r.m, r.e, FALSE)
    ELSE MkNum("int", r.s, r.m, r.e))

PyNeg(a) ==
    [t |-> IF a.t = "bool" THEN "int" ELSE a.t,
     s |-> IF a.m = <<>> THEN 0 ELSE 1 - a.s, m |-> a.m, e |-> a.e]

PySub(a, b) ==
    PyAdd(a, PyNeg(b))

PyMul(a, b) ==
    With(BMul(a.m, b.m), LAMBDA m :
    IF IsFloat(a) \/ IsFloat(b)
    THEN RoundBits(DoubleBits, IF a.s = b.s THEN 0 ELSE 1, m, a.e + b.e, FALSE)
    ELSE MkNum("int", IF a.s = b.s THEN 0 ELSE 1, m, a.e + b.e))

\* a / b: true division, always a float, correctly rounded
PyTrueDiv(a, b) ==
    RoundDiv(DoubleBits, IF a.s = b.s THEN 0 ELSE 1, a.m, b.m, a.e - b.e)

\* 10 ** d: an int for d >= 0, the float pow(10.0, d) for d < 0
PyPow10(d) ==
    IF d >= 0 THEN PyInt(10 ^ d)
    ELSE RoundDiv(DoubleBits, 0, <<1>>, NatToBits(10 ^ (-d)), 0)

\* int(v): truncation toward zero
PyToInt(v) ==
    MkNum("int", v.s, IF v.e >= 0 THEN v.m ELSE BShr(v.m, -v.e),
          IF v.e >= 0 THEN v.e ELSE 0)

\* float(v)
PyToFloat(v) ==
    RoundBits(DoubleBits, v.s, v.m, v.e, FALSE)

\* a == b on numbers: Python compares the values, 5 == 5.0
NumEq(a, b) ==
    a.s = b.s /\ a.m = b.m /\ a.e = b.e

NumLess(a, b) ==
    With(AddExact(a, [s |-> 1 - b.s, m |-> b.m, e |-> b.e]), LAMBDA d :
    d.m # <<>> /\ d.s = 1)

(***************************************************************************)
(* Python dicts are functions from the keys present: d.get(k, default).    *)
(***************************************************************************)
Has(d, k) ==
    k \in DOMAIN d

Get(d, k, default) ==
    IF k \in DOMAIN d THEN d[k] ELSE default

(***************************************************************************)
(* TransformInteger (pb_table.py).  offset, multip and decimals are small  *)
(* Python ints, given as integers; value, last_val and the result are      *)
(* Python values.                                                          *)
(***************************************************************************)
\* "sequence and last_val": a last_val of None or of 0 is falsy
UseLast(last_val, transform) ==
    Get(transform, "sequence", FALSE) /\ Truthy(last_val)

parse(value, last_val, transform) ==
    LET offset   == Get(transform, "offset", 0)
        multip   == Get(transform, "multip", 1)
        decimals == Get(transform, "decimals", 0)
    IN  PyToInt(PyMul(PyMul(PySub(IF ~Truthy(value) THEN PyInt(0) ELSE value,
                                  IF UseLast(last_val, transform) THEN last_val
                                  ELSE PyInt(offset)),
                            PyInt(multip)),
                      PyPow10(decimals)))

\* recover without the last step, the addition of the offset or last value
recover_without_offset(stored_value, last_val, transform) ==
    LET multip   == Get(transform, "multip", 1)
        decimals == Get(transform, "decimals", 0)
    IN  With(PyMul(IF ~Truthy(stored_value) THEN PyInt(0) ELSE stored_value,
                   PyPow10(-decimals)),
             LAMBDA value :
        IF multip # 0 THEN PyTrueDiv(value, PyInt(multip)) ELSE value)

recover(stored_value, last_val, transform) ==
    LET offset   == Get(transform, "offset", 0)
        multip   == Get(transform, "multip", 1)
        decimals == Get(transform, "decimals", 0)
    IN  PyAdd(With(PyMul(IF ~Truthy(stored_value) THEN PyInt(0) ELSE stored_value,
                         PyPow10(-decimals)),
                   LAMBDA value :
                   IF multip # 0 THEN PyTrueDiv(value, PyInt(multip)) ELSE value),
              IF UseLast(last_val, transform) THEN last_val ELSE PyInt(offset))

(***************************************************************************)
(* 32-bit values.  The protobuf runtime accepts an int32 or sint32 field   *)
(* value only inside -2^31..2^31-1; such a value fits the checker's        *)
(* integers and is converted with ToInt.                                   *)
(***************************************************************************)
Int32Max == 2147483647

Int32Min == -Int32Max - 1

\* the bits of |v| for an integer-valued v
IntBits(v) ==
    BShl(v.m, v.e)

InInt32(v) ==
    \/ BLen(IntBits(v)) <= 31
    \/ v.s = 1 /\ v.m = <<1>> /\ v.e = 31

ToInt(v) ==
    IF v.s = 0 THEN BitsToNat(IntBits(v))
    ELSE IF v.e = 31 THEN Int32Min
    ELSE -BitsToNat(IntBits(v))

(***************************************************************************)
(* The protobuf wire format, on sequences of bytes.                        *)
(***************************************************************************)
WIRETYPE_VARINT == 0

WIRETYPE_FIXED64 == 1

WIRETYPE_LENGTH_DELIMITED == 2

WIRETYPE_FIXED32 == 5

\* _VarintBytes(n) for 0 <= n < 2^31
RECURSIVE VarintBytes(_)
VarintBytes(n) ==
    IF n < 128 THEN <<n>> ELSE <<128 + (n % 128)>> \o VarintBytes(n \div 128)

\* a negative int32 is written as the varint of its 64-bit two's complement:
\* nine groups of seven bits with the continuation bit, then bit 63
RECURSIVE NegVarintBytes(_, _)
NegVarintBytes(n, k) ==
    IF k = 9 THEN <<1>>
    ELSE <<128 + (n % 128)>> \o NegVarintBytes(n \div 128, k + 1)

Int32Bytes(n) ==
    IF n >= 0 THEN VarintBytes(n) ELSE NegVarintBytes(n, 0)

\* sint32: the varint of the zig-zag (n << 1) ^ (n >> 31), a 32-bit unsigned
ZigZagBytes(n) ==
    LET k    == IF n >= 0 THEN n ELSE -(n + 1)
        low  == 2 * (k % 64) + (IF n >= 0 THEN 0 ELSE 1)
        rest == k \div 64
    IN  IF rest = 0 THEN <<low>> ELSE <<128 + low>> \o VarintBytes(rest)

\* the four little-endian bytes of the IEEE-754 single v (v has 24 bits)
Float32Bytes(v) ==
    IF v.m = <<>> THEN <<0, 0, 0, 0>>
    ELSE LET len    == BLen(v.m)
             biased == v.e + len - 1 + 127
             frac   == BitsToNat(BShl(v.m, 24 - len)) - 2 ^ 23
         IN  <<frac % 256,
               (frac \div 256) % 256,
               frac \div 65536 + 128 * (biased % 2),
               biased \div 2 + 128 * v.s>>

Float32Of(b) ==
    LET frac   == b[1] + 256 * b[2] + 65536 * (b[3] % 128)
        biased == b[3] \div 128 + 2 * (b[4] % 128)
    IN  IF biased = 0 /\ frac = 0 THEN MkNum("float", 0, <<>>, 0)
        ELSE MkNum("float", b[4] \div 128, NatToBits(2 ^ 23 + frac), biased - 150)

\* the bytes of a varint at pos (1-based): the groups of seven bits read,
\* or an error when the buffer ends inside it or it is longer than 10 bytes
RECURSIVE ReadGroups(_, _, _)
ReadGroups(buf, pos, n) ==
    IF pos > Len(buf) \/ pos < 1 THEN [ok |-> FALSE, g |-> <<>>, next |-> pos]
    ELSE IF buf[pos] < 128 THEN [ok |-> TRUE, g |-> <<buf[pos]>>, next |-> pos + 1]
    ELSE IF n = 9 THEN [ok |-> FALSE, g |-> <<>>, next |-> pos]
    ELSE LET r == ReadGroups(buf, pos + 1, n + 1)
         IN  [ok |-> r.ok, g |-> <<buf[pos] % 128>> \o r.g, next |-> r.next]

GroupAt(g, i) ==
    IF i <= Len(g) THEN g[i] ELSE 0

\* bits 0..30 of a varint, and its bit 31
Low31(g) ==
    GroupAt(g, 1) + 128 * GroupAt(g, 2) + 16384 * GroupAt(g, 3)
    + 2097152 * GroupAt(g, 4) + 268435456 * (GroupAt(g, 5) % 8)

Bit31(g) ==
    (GroupAt(g, 5) \div 8) % 2

\* _DecodeVarint32: the varint masked to 32 bits.  It is only ever used as a
\* length or a tag; a value of 2^30 or more is reported as 2^30, which is
\* past the end of every buffer and the tag of no field.
U32Of(g) ==
    IF Bit31(g) = 1 \/ Low31(g) >= 2 ^ 30 THEN 2 ^ 30 ELSE Low31(g)

\* the int32 of a varint: its low 32 bits as a signed number
Int32Of(g) ==
    IF Bit31(g) = 1 THEN Low31(g) + Int32Min ELSE Low31(g)

\* the sint32 of a varint: zig-zag decoding of its low 32 bits
SInt32Of(g) ==
    LET half == Bit31(g) * 1073741824 + Low31(g) \div 2
    IN  IF Low31(g) % 2 = 0 THEN half ELSE -half - 1

DecodeVarint32(buf, pos) ==
    With(ReadGroups(buf, pos, 0), LAMBDA r :
    [ok |-> r.ok, val |-> U32Of(r.g), next |-> r.next])

WireType(kind) ==
    CASE kind \in {"int32", "sint32", "bool"} -> WIRETYPE_VARINT
      [] kind = "float" -> WIRETYPE_FIXED32
      [] OTHER -> WIRETYPE_LENGTH_DELIMITED

Tag(num, wt) ==
    VarintBytes(num * 8 + wt)

RECURSIVE Flatten(_)
Flatten(ss) ==
    IF ss = <<>> THEN <<>> ELSE Head(ss) \o Flatten(Tail(ss))

\* the message without fields
NoFields ==
    [k \in {} |-> 0]

(***************************************************************************)
(* Messages.  A descriptor is [syntax, fields], fields in field-number     *)
(* order, each [num, name, kind, rep, sub] with sub the descriptor of a    *)
(* message field (as a one-element sequence).  A message is a function     *)
(* from the names of the fields that are set; a repeated field holds a     *)
(* sequence.  SerializeToString writes the fields in field-number order; a *)
(* proto2 field is written when set, a proto3 scalar when it is not its    *)
(* default.                                                                *)
(***************************************************************************)
RECURSIVE Serialize(_, _)
SerValue(fd, v) ==
    CASE fd.kind = "int32" -> Tag(fd.num, WIRETYPE_VARINT) \o Int32Bytes(ToInt(v))
      [] fd.kind = "sint32" -> Tag(fd.num, WIRETYPE_VARINT) \o ZigZagBytes(ToInt(v))
      [] fd.kind = "bool" ->
            Tag(fd.num, WIRETYPE_VARINT) \o <<IF Truthy(v) THEN 1 ELSE 0>>
      [] fd.kind = "float" -> Tag(fd.num, WIRETYPE_FIXED32) \o Float32Bytes(v)
      [] fd.kind = "string" ->
            Tag(fd.num, WIRETYPE_LENGTH_DELIMITED) \o VarintBytes(Len(v.m)) \o v.m
      [] OTHER ->
            LET body == Serialize(fd.sub[1], v)
            IN  Tag(fd.num, WIRETYPE_LENGTH_DELIMITED)
                \o VarintBytes(Len(body)) \o body

SerField(syntax, fd, msg) ==
    IF ~Has(msg, fd.name) THEN <<>>
    ELSE IF fd.rep
    THEN Flatten([i \in 1..Len(msg[fd.name]) |-> SerValue(fd, msg[fd.name][i])])
    ELSE IF syntax = "proto3" /\ fd.kind # "message" /\ ~Truthy(msg[fd.name])
    THEN <<>>
    ELSE SerValue(fd, msg[fd.name])

Serialize(desc, msg) ==
    Flatten([i \in 1..Len(desc.fields) |-> SerField(desc.syntax, desc.fields[i], msg)])

\* the payload of a field of wire type wt that starts at start: the groups
\* of a varint or the bytes of the others, and where the next field starts;
\* not ok when it runs past the end or the wire type is none of these
ReadPayload(buf, wt, start) ==
    CASE wt = WIRETYPE_VARINT ->
            With(ReadGroups(buf, start, 0), LAMBDA vg :
            [ok |-> vg.ok, g |-> vg.g, body |-> <<>>, next |-> vg.next])
      [] wt = WIRETYPE_FIXED32 ->
            [ok |-> start + 3 <= Len(buf), g |-> <<>>,
             body |-> IF start + 3 <= Len(buf) THEN SubSeq(buf, start, start + 3)
                      ELSE <<>>,
             next |-> start + 4]
      [] wt = WIRETYPE_FIXED64 ->
            [ok |-> start + 7 <= Len(buf), g |-> <<>>, body |-> <<>>,
             next |-> start + 8]
      [] wt = WIRETYPE_LENGTH_DELIMITED ->
            With(DecodeVarint32(buf, start), LAMBDA ln :
            IF ~ln.ok \/ ln.next + ln.val - 1 > Len(buf)
            THEN [ok |-> FALSE, g |-> <<>>, body |-> <<>>, next |-> start]
            ELSE [ok |-> TRUE, g |-> <<>>,
                  body |-> SubSeq(buf, ln.next, ln.next + ln.val - 1),
                  next |-> ln.next + ln.val])
      [] OTHER -> [ok |-> FALSE, g |-> <<>>, body |-> <<>>, next |-> start]

\* ParseFromString: fields are merged into msg from pos on; an unknown field
\* (or a known one under another wire type) is skipped by its wire type; a
\* field that runs past the end, a field number 0 or a wire type that cannot
\* be skipped is a DecodeError
RECURSIVE ParseFrom(_, _, _, _)
\* the value a known field fd holds after the payload is merged into old
FieldValue(fd, old, payload) ==
    CASE fd.kind = "bool" ->
            [ok |-> TRUE,
             val |-> PyBool(\E i \in 1..Len(payload.g) : payload.g[i] # 0)]
      [] fd.kind = "int32" -> [ok |-> TRUE, val |-> PyInt(Int32Of(payload.g))]
      [] fd.kind = "sint32" -> [ok |-> TRUE, val |-> PyInt(SInt32Of(payload.g))]
      [] fd.kind = "float" -> [ok |-> TRUE, val |-> Float32Of(payload.body)]
      [] fd.kind = "string" ->
            [ok |-> \A i \in 1..Len(payload.body) : payload.body[i] < 128,
             val |-> PyStr(payload.body)]
      [] OTHER ->
            With(ParseFrom(fd.sub[1], payload.body, 1,
                           IF fd.rep THEN NoFields ELSE old),
                 LAMBDA sub :
            [ok |-> sub.ok,
             val |-> IF fd.rep THEN Append(old, sub.msg) ELSE sub.msg])

ParseFrom(desc, buf, pos, msg) ==
    IF pos > Len(buf) THEN [ok |-> TRUE, msg |-> msg]
    ELSE With(DecodeVarint32(buf, pos), LAMBDA tag :
         IF ~tag.ok \/ tag.val \div 8 = 0 THEN [ok |-> FALSE, msg |-> NoFields]
         ELSE With2(ReadPayload(buf, tag.val % 8, tag.next),
                    {i \in 1..Len(desc.fields) :
                       desc.fields[i].num = tag.val \div 8
                       /\ WireType(desc.fields[i].kind) = tag.val % 8},
                    LAMBDA payload, known :
              IF ~payload.ok THEN [ok |-> FALSE, msg |-> NoFields]
              ELSE IF known = {} THEN ParseFrom(desc, buf, payload.next, msg)
              ELSE With(desc.fields[CHOOSE i \in known : TRUE], LAMBDA fd :
                   With(FieldValue(fd,
                                   IF Has(msg, fd.name) THEN msg[fd.name]
                                   ELSE IF fd.rep THEN <<>> ELSE NoFields,
                                   payload),
                        LAMBDA v :
                   IF ~v.ok THEN [ok |-> FALSE, msg |-> NoFields]
                   ELSE ParseFrom(desc, buf, payload.next,
                                  (fd.name :> v.val) @@ msg)))))

ParseFromString(desc, buf) ==
    ParseFrom(desc, buf, 1, NoFields)

\* getattr(msg, name): the value of a field, its default when it is not set
Default(kind) ==
    [t |-> CASE kind \in {"int32", "sint32"} -> "int"
             [] kind = "bool" -> "bool"
             [] kind = "float" -> "float"
             [] OTHER -> "str",
     s |-> 0, m |-> <<>>, e |-> 0]

GetField(desc, msg, name) ==
    IF Has(msg, name) THEN msg[name]
    ELSE Default(desc.fields[CHOOSE i \in 1..Len(desc.fields) :
                                 desc.fields[i].name = name].kind)

(***************************************************************************)
(* Results.  A call either returns a value or raises: [ok, val], with val  *)
(* the name of the error when ok is FALSE.                                 *)
(***************************************************************************)
Ok(v) ==
    [ok |-> TRUE, val |-> v]

\* the ProtobufTableError raised, by the start of its message
NotValidFormat ==
    "ProtobufTableError: object is not a valid format"

NotAnArray ==
    "ProtobufTableError: object is not an array"

InvalidType ==
    "ProtobufTableError: Invalid type"

UnexpectedWireFormat ==
    "ProtobufTableError: Unexpected wire format"

SequencedData ==
    "ProtobufTableError: cannot extract specific entries from sequenced data"

OnlyContains ==
    "ProtobufTableError: buffer only contains rows"

Raise(e) ==
    [ok |-> FALSE, val |-> e]

\* b[from:to], a slice of Python: the bytes there are between the two offsets
Slice(b, from, to) ==
    SubSeq(b, from + 1, IF to > Len(b) THEN Len(b) ELSE to)

\* the first failure of a sequence of results, or all their values
AllOk(rs) ==
    IF \E i \in 1..Len(rs) : ~rs[i].ok
    THEN Raise(rs[CHOOSE i \in 1..Len(rs) :
                     ~rs[i].ok /\ \A j \in 1..(i - 1) : rs[j].ok].val)
    ELSE Ok([i \in 1..Len(rs) |-> rs[i].val])

(***************************************************************************)
(* Python's conversions int(v), str(v), bool(v), float(v).  The model      *)
(* draws no numeric strings, so int and float of a str raise; str of a     *)
(* float is not modelled (no float is drawn for a string column).          *)
(***************************************************************************)
RECURSIVE Digits(_)
Digits(n) ==
    IF n < 10 THEN <<48 + n>> ELSE Digits(n \div 10) \o <<48 + (n % 10)>>

int(v) ==
    CASE v.t \in {"int", "float", "bool"} -> Ok(PyToInt(v))
      [] v.t = "str" -> Raise("ValueError")
      [] OTHER -> Raise("TypeError")

float(v) ==
    CASE v.t \in {"int", "float", "bool"} -> Ok(PyToFloat(v))
      [] v.t = "str" -> Raise("ValueError")
      [] OTHER -> Raise("TypeError")

bool(v) ==
    Ok(PyBool(Truthy(v)))

str(v) ==
    CASE v.t = "str" -> Ok(v)
      [] v.t = "none" -> Ok(PyStr(<<78, 111, 110, 101>>))
      [] v.t = "bool" -> Ok(PyStr(IF Truthy(v) THEN <<84, 114, 117, 101>>
                                  ELSE <<70, 97, 108, 115, 101>>))
      [] v.t = "int" /\ InInt32(v) /\ v.e # 31 ->
            Ok(PyStr((IF v.s = 1 THEN <<45>> ELSE <<>>)
                     \o Digits(BitsToNat(IntBits(v)))))
      [] OTHER -> Raise("NotModelled")

(***************************************************************************)
(* DataEncoder (data_encoder.py)                                           *)
(***************************************************************************)
TYPE_MAPPING(type) ==
    CASE type = "string" -> "string"
      [] type = "uint" -> "int32"
      [] type = "int" -> "sint32"
      [] type = "float" -> "float"
      [] type = "bool" -> "bool"

\* _create_js_compatible_schema: the Row message has one optional field per
\* column, numbered from 1 in header order; Data holds repeated Row data = 1
RowDescriptor(header_fields) ==
    [syntax |-> "proto2",
     fields |-> [i \in 1..Len(header_fields) |->
                   [num  |-> i,
                    name |-> header_fields[i].name,
                    kind |-> TYPE_MAPPING(header_fields[i].type),
                    rep  |-> FALSE,
                    sub  |-> <<>>]]]

DataDescriptor(header_fields) ==
    [syntax |-> "proto2",
     fields |-> <<[num  |-> 1,
                   name |-> "data",
                   kind |-> "message",
                   rep  |-> TRUE,
                   sub  |-> <<RowDescriptor(header_fields)>>]>>]

\* setattr(msg, name, value) on a field of the given kind: the value the
\* message holds afterwards, or the error the runtime raises
SetAttr(kind, v) ==
    CASE kind \in {"int32", "sint32"} ->
            IF v.t \notin {"int", "bool"} THEN Raise("TypeError")
            ELSE IF ~InInt32(v) THEN Raise("ValueError")
            ELSE Ok(MkNum("int", v.s, v.m, v.e))
      [] kind = "float" ->
            IF ~IsNum(v) THEN Raise("TypeError")
            ELSE Ok(RoundBits(SingleBits, v.s, v.m, v.e, FALSE))
      [] kind = "bool" ->
            IF v.t \notin {"int", "bool"} THEN Raise("TypeError")
            ELSE Ok(PyBool(Truthy(v)))
      [] OTHER ->
            IF v.t # "str" THEN Raise("TypeError") ELSE Ok(v)

\* the "Type conversion" of a cell, then setattr
SetCell(field_def, row_data, i) ==
    IF i > Len(row_data) THEN Raise("IndexError")
    ELSE With(IF row_data[i].t = "none"
              THEN Ok(Default(TYPE_MAPPING(field_def.type)))
              ELSE CASE field_def.type \in {"int", "uint"} -> int(row_data[i])
                     [] field_def.type = "string" -> str(row_data[i])
                     [] field_def.type = "bool" -> bool(row_data[i])
                     [] OTHER -> float(row_data[i]),
              LAMBDA value :
         IF ~value.ok THEN value
         ELSE SetAttr(TYPE_MAPPING(field_def.type), value.val))

\* one row: a Data message holding the single Row, written as field 1,
\* length-delimited: tag, len(serialized), serialized
EncodeRowFrame(header_fields, row_data) ==
    LET row_msg(values) ==
            [n \in {header_fields[i].name : i \in 1..Len(header_fields)} |->
               values[CHOOSE i \in 1..Len(header_fields) :
                         header_fields[i].name = n
                         /\ \A j \in (i + 1)..Len(header_fields) :
                              header_fields[j].name # n]]
    IN  With(AllOk([i \in 1..Len(header_fields) |->
                      SetCell(header_fields[i], row_data, i)]),
             LAMBDA cells :
        IF ~cells.ok THEN cells
        ELSE With(Serialize(DataDescriptor(header_fields),
                            [data |-> <<row_msg(cells.val)>>]),
                  LAMBDA serialized :
             Ok(Tag(1, WIRETYPE_LENGTH_DELIMITED)
                \o VarintBytes(Len(serialized)) \o serialized)))

\* _create_js_compatible_schema looks every type up in TYPE_MAPPING, a
\* KeyError for a type that is not there.
\* pool.Add(file_desc) of _create_js_compatible_schema: the descriptor pool
\* of the protobuf runtime takes no message with two fields of one name and
\* no field without a name, and raises TypeError
PoolRejects(header_fields) ==
    \E i \in 1..Len(header_fields) :
        \/ header_fields[i].name = ""
        \/ \E j \in 1..(i - 1) : header_fields[j].name = header_fields[i].name

encode_single_row_messages(header_fields, data_rows) ==
    IF \E i \in 1..Len(header_fields) :
          header_fields[i].type \notin {"string", "uint", "int", "float", "bool"}
    THEN Raise("KeyError")
    ELSE IF PoolRejects(header_fields) THEN Raise("TypeError")
    ELSE
    With(AllOk([r \in 1..Len(data_rows) |->
                  EncodeRowFrame(header_fields, data_rows[r])]),
         LAMBDA frames :
    IF ~frames.ok THEN frames ELSE Ok(Flatten(frames.val)))

\* the offsets at which the loop of decode_single_row_messages starts to read
\* a row frame, from offset on
RECURSIVE RowOffsets(_, _)
RowOffsets(data_bytes, offset) ==
    IF ~(offset < Len(data_bytes)) THEN <<>>
    ELSE With(DecodeVarint32(data_bytes, offset + 1), LAMBDA tag :
         With(DecodeVarint32(data_bytes, tag.next), LAMBDA length :
         IF ~tag.ok \/ ~length.ok THEN <<offset>>
         ELSE <<offset>>
              \o RowOffsets(data_bytes, length.next - 1 + length.val)))

\* the rows decoded from offset on (offset is Python's, from 0)
RECURSIVE DecodeRowsFrom(_, _, _)
DecodeRowsFrom(header_fields, data_bytes, offset) ==
    LET row_data(row_msg) ==
            [i \in 1..Len(header_fields) |->
               GetField(RowDescriptor(header_fields), row_msg,
                        header_fields[i].name)]
    IN  IF ~(offset < Len(data_bytes)) THEN Ok(<<>>)
        ELSE With(DecodeVarint32(data_bytes, offset + 1), LAMBDA tag :
             IF ~tag.ok THEN Raise("IndexError")
             ELSE IF tag.val % 8 # WIRETYPE_LENGTH_DELIMITED \/ tag.val \div 8 # 1
             THEN Raise(UnexpectedWireFormat)
             ELSE With(DecodeVarint32(data_bytes, tag.next), LAMBDA length :
                  IF ~length.ok THEN Raise("IndexError")
                  ELSE With(ParseFromString(
                                DataDescriptor(header_fields),
                                Slice(data_bytes, length.next - 1,
                                      length.next - 1 + length.val)),
                            LAMBDA data_msg :
                       IF ~data_msg.ok THEN Raise("DecodeError")
                       ELSE With(DecodeRowsFrom(header_fields, data_bytes,
                                                length.next - 1 + length.val),
                                 LAMBDA rest :
                            IF ~rest.ok THEN rest
                            ELSE Ok((IF Len(Get(data_msg.msg, "data", <<>>)) > 0
                                     THEN <<row_data(data_msg.msg.data[1])>>
                                     ELSE <<>>)
                                    \o rest.val)))))

\* the schema is created first, as in encode_single_row_messages
decode_single_row_messages(header_fields, data_bytes) ==
    IF \E i \in 1..Len(header_fields) :
          header_fields[i].type \notin {"string", "uint", "int", "float", "bool"}
    THEN Raise("KeyError")
    ELSE IF PoolRejects(header_fields) THEN Raise("TypeError")
    ELSE DecodeRowsFrom(header_fields, data_bytes, 0)

(***************************************************************************)
(* Python strs used as names (field names, type names, meta texts) are     *)
(* strings of the model; these are their UTF-8 bytes on the wire.          *)
(***************************************************************************)
Utf8Table ==
    ("" :> <<>>) @@
    ("string" :> <<115, 116, 114, 105, 110, 103>>) @@
    ("uint" :> <<117, 105, 110, 116>>) @@
    ("int" :> <<105, 110, 116>>) @@
    ("float" :> <<102, 108, 111, 97, 116>>) @@
    ("bool" :> <<98, 111, 111, 108>>) @@
    ("id" :> <<105, 100>>) @@
    ("name" :> <<110, 97, 109, 101>>) @@
    ("v" :> <<118>>) @@
    ("a" :> <<97>>) @@
    ("c" :> <<99>>) @@
    ("counter" :> <<99, 111, 117, 110, 116, 101, 114>>) @@
    ("value" :> <<118, 97, 108, 117, 101>>) @@
    ("latitude" :> <<108, 97, 116, 105, 116, 117, 100, 101>>) @@
    ("log" :> <<108, 111, 103>>) @@
    ("ops" :> <<111, 112, 115>>)

Utf8(s) ==
    PyStr(Utf8Table[s])

\* the str of the bytes b; "?" stands for a str outside the table
FromUtf8(v) ==
    With({s \in DOMAIN Utf8Table : Utf8Table[s] = v.m}, LAMBDA strs :
    IF strs = {} THEN "?" ELSE CHOOSE s \in strs : TRUE)

(***************************************************************************)
(* The schema block (head_pb2.tableHead).  The compiled message is not     *)
(* among the sources; its layout is the one the specification gives:       *)
(* tableHead {repeated Field header; Meta meta}, Field {name, type,        *)
(* transform, stats}, Transform {int32 offset, multip, decimals; bool      *)
(* sequence}, Stats {float start, end, min, max, mean}, Meta {string name, *)
(* owner, link, comment; int32 row_count}, fields numbered in that order.  *)
(***************************************************************************)
Scalar(num, name, kind) ==
    [num |-> num, name |-> name, kind |-> kind, rep |-> FALSE, sub |-> <<>>]

TransformDescriptor ==
    [syntax |-> "proto3",
     fields |-> <<Scalar(1, "offset", "int32"), Scalar(2, "multip", "int32"),
                  Scalar(3, "decimals", "int32"), Scalar(4, "sequence", "bool")>>]

StatsDescriptor ==
    [syntax |-> "proto3",
     fields |-> <<Scalar(1, "start", "float"), Scalar(2, "end", "float"),
                  Scalar(3, "min", "float"), Scalar(4, "max", "float"),
                  Scalar(5, "mean", "float")>>]

FieldDescriptor ==
    [syntax |-> "proto3",
     fields |-> <<Scalar(1, "name", "string"), Scalar(2, "type", "string"),
                  [num |-> 3, name |-> "transform", kind |-> "message",
                   rep |-> FALSE, sub |-> <<TransformDescriptor>>],
                  [num |-> 4, name |-> "stats", kind |-> "message",
                   rep |-> FALSE, sub |-> <<StatsDescriptor>>]>>]

MetaDescriptor ==
    [syntax |-> "proto3",
     fields |-> <<Scalar(1, "name", "string"), Scalar(2, "owner", "string"),
                  Scalar(3, "link", "string"), Scalar(4, "comment", "string"),
                  Scalar(5, "row_count", "int32")>>]

tableHead ==
    [syntax |-> "proto3",
     fields |-> <<[num |-> 1, name |-> "header", kind |-> "message",
                   rep |-> TRUE, sub |-> <<FieldDescriptor>>],
                  [num |-> 2, name |-> "meta", kind |-> "message",
                   rep |-> FALSE, sub |-> <<MetaDescriptor>>]>>]

(***************************************************************************)
(* pb_table.py.  A table is a dict: header (a list of field dicts with     *)
(* name, type and optionally transform and stats), data (a list of rows)   *)
(* and optionally meta.  A transform holds small ints and a bool; stats    *)
(* hold floats.                                                            *)
(***************************************************************************)
Range(f) ==
    {f[x] : x \in DOMAIN f}

\* sum(values) of Python: from 0, left to right
RECURSIVE sum(_)
sum(values) ==
    IF values = <<>> THEN PyInt(0)
    ELSE PyAdd(sum(SubSeq(values, 1, Len(values) - 1)), values[Len(values)])

\* calculate_field_stats that takes a None for 0 instead of passing it by
calculate_field_stats_with_none(data, field_index, field_type) ==
    LET numeric[r \in 0..Len(data)] ==
            IF r = 0 THEN <<>>
            ELSE IF field_index <= Len(data[r])
                    /\ data[r][field_index].t = "none"
            THEN Append(numeric[r - 1], PyToFloat(PyInt(0)))
            ELSE IF field_index <= Len(data[r]) /\ IsNum(data[r][field_index])
            THEN Append(numeric[r - 1], PyToFloat(data[r][field_index]))
            ELSE numeric[r - 1]
    IN  IF field_type \notin {"int", "uint", "float"} THEN <<>>
        ELSE With(numeric[Len(data)], LAMBDA values :
             IF values = <<>> THEN <<>>
             ELSE <<[start |-> values[1],
                     end   |-> values[Len(values)],
                     min   |-> CHOOSE v \in Range(values) :
                                  \A w \in Range(values) : ~NumLess(w, v),
                     max   |-> CHOOSE v \in Range(values) :
                                  \A w \in Range(values) : ~NumLess(v, w),
                     mean  |-> PyTrueDiv(sum(values), PyInt(Len(values)))]>>)

\* StatsCalculator.calculate_field_stats: <<>> is None
calculate_field_stats(data, field_index, field_type) ==
    LET numeric[r \in 0..Len(data)] ==
            IF r = 0 THEN <<>>
            ELSE IF field_index <= Len(data[r])
                    /\ data[r][field_index].t # "none"
                    /\ IsNum(data[r][field_index])
            THEN Append(numeric[r - 1], PyToFloat(data[r][field_index]))
            ELSE numeric[r - 1]
    IN  IF field_type \notin {"int", "uint", "float"} THEN <<>>
        ELSE With(numeric[Len(data)], LAMBDA values :
             IF values = <<>> THEN <<>>
             ELSE <<[start |-> values[1],
                     end   |-> values[Len(values)],
                     min   |-> CHOOSE v \in Range(values) :
                                  \A w \in Range(values) : ~NumLess(w, v),
                     max   |-> CHOOSE v \in Range(values) :
                                  \A w \in Range(values) : ~NumLess(v, w),
                     mean  |-> PyTrueDiv(sum(values), PyInt(Len(values)))]>>)

\* calculate_all_stats that leaves the meta dict as it came
calculate_all_stats_without_count(obj) ==
    With([i \in 1..Len(obj.header) |->
            With(calculate_field_stats(obj.data, i, obj.header[i].type),
                 LAMBDA stats :
            IF stats # <<>> THEN ("stats" :> stats[1]) @@ obj.header[i]
            ELSE obj.header[i])],
         LAMBDA header :
    [obj    |-> [obj EXCEPT !.header = header],
     result |-> [obj EXCEPT !.header = header]])

\* StatsCalculator.calculate_all_stats.  result is a shallow copy of obj:
\* the field dicts and the meta dict are the caller's own, so the stats and
\* the row count are written into the caller's table too (obj), and only a
\* meta dict created here belongs to the copy alone (result).
calculate_all_stats(obj) ==
    With([i \in 1..Len(obj.header) |->
            With(calculate_field_stats(obj.data, i, obj.header[i].type),
                 LAMBDA stats :
            IF stats # <<>> THEN ("stats" :> stats[1]) @@ obj.header[i]
            ELSE obj.header[i])],
         LAMBDA header :
    With(IF Has(obj, "meta")
         THEN [obj EXCEPT !.header = header,
                          !.meta = ("row_count" :> Len(obj.data)) @@ @]
         ELSE [obj EXCEPT !.header = header],
         LAMBDA after :
    [obj    |-> after,
     result |-> IF Has(obj, "meta") THEN after
                ELSE ("meta" :> ("row_count" :> Len(obj.data))) @@ after]))

Single(v) ==
    RoundBits(SingleBits, v.s, v.m, v.e, FALSE)

HeaderFieldMsg(field_def) ==
    (IF Has(field_def, "transform")
     THEN "transform" :>
            [key \in {"offset", "multip", "decimals", "sequence"} |->
               IF key = "sequence"
               THEN PyBool(Get(field_def.transform, key, FALSE))
               ELSE PyInt(Get(field_def.transform, key,
                              IF key = "multip" THEN 1 ELSE 0))]
     ELSE NoFields)
    @@ (IF Has(field_def, "stats")
        THEN "stats" :>
               [key \in {"start", "end", "min", "max", "mean"} |->
                  Single(Get(field_def.stats, key, Default("float")))]
        ELSE NoFields)
    @@ [name |-> Utf8(field_def.name), type |-> Utf8(field_def.type)]

HeaderMsg(header_obj) ==
    (IF Has(header_obj, "meta")
     THEN "meta" :>
            [key \in {"name", "owner", "link", "comment", "row_count"} |->
               IF key = "row_count"
               THEN PyInt(Get(header_obj.meta, key, 0))
               ELSE Utf8(Get(header_obj.meta,
                             IF key = "name" /\ Has(header_obj.meta, "filename")
                             THEN "filename" ELSE key,
                             ""))]
     ELSE NoFields)
    @@ [header |-> [i \in 1..Len(header_obj.header) |->
                      HeaderFieldMsg(header_obj.header[i])]]

\* _encode_header_delimited: the length, then the serialized tableHead
encode_header_delimited(header_obj) ==
    With(Serialize(tableHead, HeaderMsg(header_obj)), LAMBDA serialized :
    VarintBytes(Len(serialized)) \o serialized)

HeaderFieldDict(field_msg) ==
    (IF Has(field_msg, "transform")
     THEN "transform" :>
            [key \in {"offset", "multip", "decimals", "sequence"} |->
               With(GetField(TransformDescriptor, field_msg.transform, key),
                    LAMBDA value :
               IF key = "sequence" THEN Truthy(value) ELSE ToInt(value))]
     ELSE NoFields)
    @@ (IF Has(field_msg, "stats")
        THEN "stats" :>
               [key \in {"start", "end", "min", "max", "mean"} |->
                  GetField(StatsDescriptor, field_msg.stats, key)]
        ELSE NoFields)
    @@ [key \in {"name", "type"} |->
          FromUtf8(GetField(FieldDescriptor, field_msg, key))]

\* _decode_header_delimited(buffer, 0): the header dict and the offset of
\* the first byte after the schema block.  The slice of a buffer shorter
\* than the declared length is the bytes there are.
decode_header_delimited(buffer) ==
    With(DecodeVarint32(buffer, 1), LAMBDA length :
    IF ~length.ok THEN Raise("IndexError")
    ELSE With(ParseFromString(tableHead,
                              Slice(buffer, length.next - 1,
                                    length.next - 1 + length.val)),
              LAMBDA header_msg :
         IF ~header_msg.ok THEN Raise("DecodeError")
         ELSE Ok([header_obj |->
                    (IF Has(header_msg.msg, "meta")
                     THEN "meta" :>
                            [key \in {"filename", "owner", "link", "comment",
                                      "row_count"} |->
                               With(GetField(MetaDescriptor, header_msg.msg.meta,
                                             IF key = "filename" THEN "name"
                                             ELSE key),
                                    LAMBDA value :
                               IF key = "row_count" THEN ToInt(value)
                               ELSE FromUtf8(value))]
                     ELSE NoFields)
                    @@ [header |->
                          [i \in 1..Len(Get(header_msg.msg, "header", <<>>)) |->
                             HeaderFieldDict(header_msg.msg.header[i])]],
                  data_offset |-> length.next - 1 + length.val])))

valid_types ==
    {"string", "uint", "int", "float", "bool"}

\* TransformInteger.parse as called on a cell: arithmetic on a str raises
ParseCell(value, last_val, transform) ==
    IF (Truthy(value) /\ ~IsNum(value))
       \/ (UseLast(last_val, transform) /\ ~IsNum(last_val))
    THEN Raise("TypeError")
    ELSE Ok(parse(value, last_val, transform))

\* the body of the "Apply transforms" loop of encode_table for one cell
\* (rows and columns from 1).  The sequence delta is taken against the raw
\* value of the row before.
TransformCell(obj, row_index, col) ==
    LET field_def  == obj.header[col]
        field_type == field_def.type
        row_data   == obj.data[row_index]
        value      == row_data[col]
        transform  == field_def.transform
        sequenced  == Get(transform, "sequence", FALSE) /\ row_index > 1
        last_val   == IF sequenced THEN obj.data[row_index - 1][col] ELSE PyNone
    IN  IF col > Len(row_data) THEN Raise("IndexError")
        ELSE IF field_type \in {"int", "uint"} /\ Has(field_def, "transform")
        THEN (IF sequenced /\ col > Len(obj.data[row_index - 1])
              THEN Raise("IndexError")
              ELSE ParseCell(value, last_val, transform))
        ELSE CASE field_type \in {"int", "uint"} -> int(value)
               [] field_type = "string" -> str(value)
               [] field_type = "bool" -> bool(value)
               [] field_type = "float" -> float(value)
               [] OTHER -> Ok(value)

\* "not obj.get('header') or not obj.get('data')".  A data that is not a
\* list is held as a Python value under the key scalar, in place of data.
Falsy(obj) ==
    \/ ~Has(obj, "header") \/ obj.header = <<>>
    \/ (IF Has(obj, "data") THEN obj.data = <<>>
        ELSE ~Has(obj, "scalar") \/ ~Truthy(obj.scalar))

\* encode_table after its validation: the stats, the header, the transform
\* loop and the rows.  res is the buffer returned or the error raised, obj
\* is the caller's table afterwards.
EncodeChecked(obj) ==
    With2(calculate_all_stats(obj),
          AllOk([r \in 1..Len(obj.data) |->
                   AllOk([c \in 1..Len(obj.header) |->
                            TransformCell(obj, r, c)])]),
          LAMBDA stats, transformed_data :
    IF ~transformed_data.ok
    THEN [res |-> transformed_data, obj |-> stats.obj]
    ELSE With(encode_single_row_messages(stats.result.header,
                                         transformed_data.val),
              LAMBDA data_bytes :
         [res |-> IF ~data_bytes.ok THEN data_bytes
                  ELSE Ok(encode_header_delimited(stats.result)
                          \o data_bytes.val),
          obj |-> stats.obj]))

\* encode_table without the validation of the field types
encode_table_any_type(obj) ==
    IF Falsy(obj)
    THEN [res |-> Raise(NotValidFormat), obj |-> obj]
    ELSE IF ~Has(obj, "data")
    THEN [res |-> Raise(NotAnArray), obj |-> obj]
    ELSE EncodeChecked(obj)

\* encode_table(obj): res is the buffer returned or the error raised, obj is
\* the caller's table afterwards
encode_table(obj) ==
    IF Falsy(obj)
    THEN [res |-> Raise(NotValidFormat), obj |-> obj]
    ELSE IF ~Has(obj, "data")
    THEN [res |-> Raise(NotAnArray), obj |-> obj]
    ELSE IF \E i \in 1..Len(obj.header) : obj.header[i].type \notin valid_types
    THEN [res |-> Raise(InvalidType), obj |-> obj]
    ELSE EncodeChecked(obj)

\* the "Apply reverse transforms" loop of decode_table: the rows restored
\* so far; the sequence sum is taken with the row restored before
RECURSIVE RestoreRows(_, _)
RestoreRows(header, decoded_rows) ==
    IF decoded_rows = <<>> THEN <<>>
    ELSE With(RestoreRows(header, SubSeq(decoded_rows, 1, Len(decoded_rows) - 1)),
              LAMBDA data :
         Append(data,
           [col \in 1..Len(header) |->
              LET field_def == header[col]
                  value     == decoded_rows[Len(decoded_rows)][col]
                  transform == field_def.transform
                  last_val  == IF Get(transform, "sequence", FALSE)
                                  /\ Len(data) > 0
                               THEN data[Len(data)][col]
                               ELSE PyNone
              IN  IF field_def.type \in {"int", "uint"}
                     /\ Has(field_def, "transform")
                  THEN recover(value, last_val, transform)
                  ELSE value]))

decode_table(buffer) ==
    With(decode_header_delimited(buffer), LAMBDA head :
    IF ~head.ok THEN head
    ELSE With(decode_single_row_messages(
                  head.val.header_obj.header,
                  Slice(buffer, head.val.data_offset, Len(buffer))),
              LAMBDA decoded_rows :
         IF ~decoded_rows.ok THEN decoded_rows
         ELSE Ok(("data" :> RestoreRows(head.val.header_obj.header,
                                        decoded_rows.val))
                 @@ head.val.header_obj)))

\* row_obj.get(field_name) for every field, in header order
RowArray(header, row_obj) ==
    [i \in 1..Len(header) |-> Get(row_obj, header[i].name, PyNone)]

\* the dict built from a row array; of two fields of one name the later wins
RowObj(header, row_array) ==
    [n \in {header[i].name : i \in 1..Len(header)} |->
       row_array[CHOOSE i \in 1..Len(header) :
                    header[i].name = n
                    /\ \A j \in (i + 1)..Len(header) : header[j].name # n]]

\* encode_verbose(obj): the array table shares the header and meta of obj.
\* Iterating a data that is no list fails: the characters of a str have no
\* get (AttributeError), a number is not iterable (TypeError).
encode_verbose(obj) ==
    IF Falsy(obj)
    THEN [res |-> Raise(NotValidFormat), obj |-> obj]
    ELSE IF ~Has(obj, "data")
    THEN [res |-> Raise(IF obj.scalar.t = "str" THEN "AttributeError"
                        ELSE "TypeError"),
          obj |-> obj]
    ELSE With(encode_table([obj EXCEPT !.data =
                              [r \in 1..Len(obj.data) |->
                                 RowArray(obj.header, obj.data[r])]]),
              LAMBDA encoded :
         [res |-> encoded.res, obj |-> [encoded.obj EXCEPT !.data = obj.data]])

decode_verbose(buffer) ==
    With(decode_table(buffer), LAMBDA array_result :
    IF ~array_result.ok THEN array_result
    ELSE Ok([array_result.val EXCEPT !.data =
               [r \in 1..Len(@) |-> RowObj(array_result.val.header, @[r])]]))

\* field.get('transform', {}).get('sequence', False) for some field
Sequenced(header) ==
    \E i \in 1..Len(header) :
        Get(Get(header[i], "transform", NoFields), "sequence", FALSE)

\* data[idx] of a Python list: a negative idx counts from the end
Item(data, idx) ==
    IF idx >= 0 /\ idx < Len(data) THEN Ok(data[idx + 1])
    ELSE IF idx < 0 /\ -idx <= Len(data) THEN Ok(data[Len(data) + idx + 1])
    ELSE Raise("IndexError")

\* Extract that leaves out the rows of a list that are beyond the end
Extract_in_range(data, request) ==
    IF Has(request, "int")
    THEN (IF request.int >= Len(data) THEN Raise(OnlyContains)
          ELSE Item(data, request.int))
    ELSE AllOk([k \in 1..Len(SelectSeq(request.list, LAMBDA idx : idx < Len(data))) |->
                  Item(data, SelectSeq(request.list,
                                       LAMBDA idx : idx < Len(data))[k])])

\* the "Extract requested rows" part of get_table and get_verbose.  A
\* request is [int |-> idx] or [list |-> <<idx, ...>>].
Extract(data, request) ==
    IF Has(request, "int")
    THEN (IF request.int >= Len(data) THEN Raise(OnlyContains)
          ELSE Item(data, request.int))
    ELSE AllOk([k \in 1..Len(request.list) |->
                  IF request.list[k] >= Len(data) THEN Raise(OnlyContains)
                  ELSE Item(data, request.list[k])])

\* get_table without the check for sequence transforms
get_table_unguarded(buffer, request) ==
    With(decode_table(buffer), LAMBDA decoded :
    IF ~decoded.ok THEN decoded ELSE Extract(decoded.val.data, request))

get_table(buffer, request) ==
    With(decode_table(buffer), LAMBDA decoded :
    IF ~decoded.ok THEN decoded
    ELSE IF Sequenced(decoded.val.header) THEN Raise(SequencedData)
    ELSE Extract(decoded.val.data, request))

get_verbose(buffer, request) ==
    With(decode_verbose(buffer), LAMBDA decoded :
    IF ~decoded.ok THEN decoded
    ELSE IF Sequenced(decoded.val.header) THEN Raise(SequencedData)
    ELSE Extract(decoded.val.data, request))

add_table(buffer, data) ==
    With(decode_table(buffer), LAMBDA existing :
    IF ~existing.ok THEN existing
    ELSE encode_table([existing.val EXCEPT !.data = @ \o data]).res)

add_verbose(buffer, data) ==
    With(decode_verbose(buffer), LAMBDA existing :
    IF ~existing.ok THEN existing
    ELSE encode_verbose([existing.val EXCEPT !.data = @ \o data]).res)

\* the loop of get_index from offset on (offsets are Python's, from 0): the
\* offset is recorded, a varint is read there and the walk moves on by it
RECURSIVE IndexFrom(_, _)
IndexFrom(buffer, offset) ==
    IF ~(offset < Len(buffer)) THEN Ok(<<>>)
    ELSE With(DecodeVarint32(buffer, offset + 1), LAMBDA length :
         IF ~length.ok THEN Raise("IndexError")
         ELSE With(IndexFrom(buffer, length.next - 1 + length.val), LAMBDA rest :
              IF ~rest.ok THEN rest ELSE Ok(<<offset>> \o rest.val)))

get_index(buffer) ==
    With(decode_header_delimited(buffer), LAMBDA head :
    IF ~head.ok THEN head ELSE IndexFrom(buffer, head.val.data_offset))

(***************************************************************************)
(* The tables and rows the caller works with.                              *)
(***************************************************************************)
\* the most rows of the table that is encoded
MaxRows == 2

\* the most rows one add call appends
MaxNew == 1

\* the most add calls
MaxAdds == 1

SeqsUpTo(S, n) ==
    UNION {[1..k -> S] : k \in 0..n}

Ascii(c) ==
    PyStr(<<c>>)

\* 3 * 10^9 and 2^32 - 1: valid uint values that no int32 holds
ThreeBillion ==
    PyIntE(3, 9)

UInt32Max ==
    PyAdd(PyAdd(PyInt(Int32Max), PyInt(Int32Max)), PyInt(1))

\* the latitude column of the affine scenario
Latitude ==
    [name |-> "latitude", type |-> "int",
     transform |-> [offset |-> -42, multip |-> 1000000, decimals |-> 6,
                    sequence |-> FALSE]]

Headers ==
    <<  <<[name |-> "id", type |-> "uint"], [name |-> "name", type |-> "string"]>>,
        <<[name |-> "v", type |-> "float"], [name |-> "a", type |-> "bool"]>>,
        <<[name |-> "c", type |-> "int"]>>,
        <<[name |-> "id", type |-> "uint"],
          [name |-> "counter", type |-> "uint", transform |-> [sequence |-> TRUE]]>>,
        <<[name |-> "value", type |-> "int",
           transform |-> [offset |-> 1000, sequence |-> TRUE]]>>,
        <<Latitude>>  >>

\* the rows drawn for each header
Rows ==
    <<  {<<PyInt(1), Ascii(97)>>, <<PyInt(0), PyStr(<<>>)>>,
         <<ThreeBillion, Ascii(98)>>, <<PyInt(-1), Ascii(99)>>},
        {<<PyDec(5, 1), PyBool(TRUE)>>, <<PyDec(1, 1), PyBool(FALSE)>>},
        {<<PyInt(-1)>>, <<PyInt(0)>>, <<PyInt(5)>>, <<ThreeBillion>>},
        {<<PyInt(1), PyInt(100)>>, <<PyInt(2), PyInt(105)>>, <<PyInt(3), PyInt(0)>>},
        {<<PyInt(0)>>, <<PyInt(5)>>, <<PyInt(1000)>>, <<PyInt(-3)>>},
        {<<PyDec(-41123456, 6)>>, <<PyDec(-41123789, 6)>>}  >>

\* the table of the affine scenario
AffineScenario ==
    [header |-> <<Latitude>>,
     data   |-> <<<<PyDec(-41123456, 6)>>, <<PyDec(-41123789, 6)>>,
                  <<PyDec(-41124012, 6)>>>>]

Tables ==
    UNION {{[header |-> Headers[h], data |-> d] : d \in SeqsUpTo(Rows[h], MaxRows)} :
                  h \in DOMAIN Headers}
    \cup {AffineScenario}

\* a column of floats alone, with rows shorter and longer than the header
FloatOnly ==
    <<[name |-> "v", type |-> "float"]>>

ArityRows ==
    {<<PyDec(5, 1)>>, <<>>, <<PyDec(5, 1), PyBool(TRUE)>>}

\* the rows drawn for a header: those of the header a table was drawn with
RowsOf(header) ==
    With(Headers \o <<FloatOnly>>, LAMBDA headers :
    (Rows \o <<ArityRows>>)[CHOOSE h \in DOMAIN headers :
            Len(headers[h]) = Len(header)
            /\ \A i \in 1..Len(header) : headers[h][i].name = header[i].name])

Requests ==
    {[int |-> i] : i \in -1..(MaxRows + MaxNew)}
    \cup {[list |-> s] : s \in {<<>>, <<0>>, <<1, 0>>, <<0, 0>>, <<2>>, <<0, 2>>,
                                   <<0, -1>>}}

NoCall ==
    [op |-> "none"]

\* the operations that read a buffer and leave it as it is
Queries ==
    {"decode_table", "decode_verbose", "get_table", "get_verbose", "get_index"}

\* A run is one session of a caller: it encodes its table, appends rows to
\* the buffer, and ends by reading the buffer with one of the queries.  The
\* queries change nothing, so every pair of a buffer and a query result is
\* reached by a session that ends with that query.
VARIABLES
    table,      \* the caller's table (array format)
    buffer,     \* the buffer the caller holds, <<>> before the first one
    written,    \* the rows encoded and appended so far
    calls,      \* the names of the encode and add calls made, in order
    out         \* the last call: [op, arg, res]

vars == <<table, buffer, written, calls, out>>

Init ==
    /\ table \in Tables
    /\ buffer = <<>>
    /\ written = <<>>
    /\ calls = <<>>
    /\ out = NoCall

\* the keyed form of a row of the caller: a cell of None, and a cell the
\* row does not reach, is a key the row lacks; of two fields of one name
\* the later gives the value
KeyedRow(header, row_array) ==
    [n \in {header[i].name :
              i \in {c \in 1..Len(header) :
                       c <= Len(row_array) /\ row_array[c].t # "none"}} |->
       row_array[CHOOSE i \in 1..Len(header) :
                    /\ header[i].name = n
                    /\ i <= Len(row_array) /\ row_array[i].t # "none"
                    /\ \A j \in (i + 1)..Len(header) :
                         (j <= Len(row_array) /\ row_array[j].t # "none")
                         => header[j].name # n]]

\* the table in object format: every row keyed by field name
Verbose(obj) ==
    IF Has(obj, "header") /\ Has(obj, "data")
    THEN [obj EXCEPT !.data = [r \in 1..Len(obj.data) |->
                                 KeyedRow(obj.header, obj.data[r])]]
    ELSE obj

Encoded(op, call) ==
    /\ calls' = <<op>>
    /\ out' = [op |-> op, arg |-> table, res |-> call.res]
    /\ buffer' = IF call.res.ok THEN call.res.val ELSE buffer
    /\ written' = IF call.res.ok THEN table.data ELSE written
    /\ table' = IF Has(table, "data") THEN [call.obj EXCEPT !.data = table.data]
                ELSE call.obj

EncodeTable ==
    /\ calls = <<>>
    /\ Encoded("encode_table", encode_table(table))

EncodeVerbose ==
    /\ calls = <<>>
    /\ Encoded("encode_verbose", encode_verbose(Verbose(table)))

Added(op, data, res) ==
    /\ calls' = Append(calls, op)
    /\ out' = [op |-> op, arg |-> data, res |-> res]
    /\ buffer' = IF res.ok THEN res.val ELSE buffer
    /\ written' = IF res.ok THEN written \o data ELSE written
    /\ UNCHANGED table

AddTable ==
    /\ buffer # <<>> /\ out.op \notin Queries /\ Len(calls) <= MaxAdds
    /\ \E data \in SeqsUpTo(RowsOf(table.header), MaxNew) :
         Added("add_table", data, add_table(buffer, data))

AddVerbose ==
    /\ buffer # <<>> /\ out.op \notin Queries /\ Len(calls) <= MaxAdds
    /\ \E data \in SeqsUpTo(RowsOf(table.header), MaxNew) :
         Added("add_verbose", data,
               add_verbose(buffer, [r \in 1..Len(data) |->
                                      KeyedRow(table.header, data[r])]))

Queried(op, arg, res) ==
    /\ out' = [op |-> op, arg |-> arg, res |-> res]
    /\ UNCHANGED <<table, buffer, written, calls>>

DecodeTable ==
    /\ buffer # <<>> /\ out.op \notin Queries
    /\ Queried("decode_table", <<>>, decode_table(buffer))

DecodeVerbose ==
    /\ buffer # <<>> /\ out.op \notin Queries
    /\ Queried("decode_verbose", <<>>, decode_verbose(buffer))

GetTable ==
    /\ buffer # <<>> /\ out.op \notin Queries
    /\ \E request \in Requests :
         Queried("get_table", request, get_table(buffer, request))

GetVerbose ==
    /\ buffer # <<>> /\ out.op \notin Queries
    /\ \E request \in Requests :
         Queried("get_verbose", request, get_verbose(buffer, request))

GetIndex ==
    /\ buffer # <<>> /\ out.op \notin Queries
    /\ Queried("get_index", <<>>, get_index(buffer))

Next ==
    \/ EncodeTable
    \/ EncodeVerbose
    \/ AddTable
    \/ AddVerbose
    \/ DecodeTable
    \/ DecodeVerbose
    \/ GetTable
    \/ GetVerbose
    \/ GetIndex

Spec ==
    Init /\ [][Next]_vars

(***************************************************************************)
(* The same calls on the inputs at the edges: cells of None, rows shorter  *)
(* or longer than the header, a table with a meta dict, and what           *)
(* encode_table is to refuse (no header, no rows, a data that is no list,  *)
(* an unknown type, a field name given twice or empty).                    *)
(***************************************************************************)
\* rows with None, for each header of Headers
NoneRows ==
    <<  {<<PyNone, Ascii(97)>>, <<PyInt(1), PyNone>>},
        {<<PyNone, PyBool(TRUE)>>, <<PyDec(5, 1), PyNone>>},
        {<<PyNone>>},
        {},
        {<<PyNone>>},
        {}  >>

NoneTables ==
    UNION {{[header |-> Headers[h], data |-> d] :
               d \in {s \in SeqsUpTo(Rows[h] \cup NoneRows[h], MaxRows) :
                         \E r \in 1..Len(s) : s[r] \in NoneRows[h]}} :
           h \in DOMAIN Headers}

ArityTables ==
    {[header |-> FloatOnly, data |-> d] :
        d \in SeqsUpTo(ArityRows, MaxRows) \ {<<>>}}

Metas ==
    {NoFields,
     [filename |-> "log", owner |-> "ops"],
     [filename |-> "log", row_count |-> 7],
     [name |-> "log", owner |-> "ops", link |-> "a", comment |-> "c"]}

MetaTables ==
    {[header |-> Headers[3], data |-> d, meta |-> m] :
        d \in {<<<<PyInt(0)>>>>, <<<<PyInt(0)>>, <<PyInt(5)>>>>}, m \in Metas}

InvalidTables ==
    {[data |-> <<<<PyInt(5)>>>>],
     [header |-> <<>>, data |-> <<<<PyInt(5)>>>>],
     [header |-> Headers[3]],
     [header |-> Headers[3], data |-> <<>>],
     [header |-> Headers[3], scalar |-> PyNone],
     [header |-> Headers[3], scalar |-> PyInt(0)],
     [header |-> Headers[3], scalar |-> PyInt(7)],
     [header |-> Headers[3], scalar |-> Ascii(97)],
     [header |-> <<[name |-> "c", type |-> "double"]>>,
      data |-> <<<<PyInt(5)>>>>],
     [header |-> <<[name |-> "id", type |-> "uint"], [name |-> "name", type |-> ""]>>,
      data |-> <<<<PyInt(1), Ascii(97)>>>>]}

DuplicateTables ==
    {[header |-> <<[name |-> "id", type |-> "uint"],
                   [name |-> "id", type |-> "string"]>>,
      data |-> <<<<PyInt(1), Ascii(97)>>>>],
     [header |-> <<[name |-> "c", type |-> "int"], [name |-> "c", type |-> "int"]>>,
      data |-> <<<<PyInt(1), PyInt(2)>>>>],
     [header |-> <<[name |-> "", type |-> "int"]>>,
      data |-> <<<<PyInt(1)>>>>]}

\* 2^24 + 1, an int that no single holds
Odd25Bits ==
    PyInt(16777217)

WideTables ==
    {[header |-> Headers[3], data |-> d] :
        d \in {<<<<Odd25Bits>>>>, <<<<PyInt(5)>>, <<Odd25Bits>>>>}}

InputTables ==
    NoneTables \cup ArityTables \cup MetaTables \cup WideTables
    \cup InvalidTables \cup DuplicateTables

InputInit ==
    /\ table \in InputTables
    /\ buffer = <<>>
    /\ written = <<>>
    /\ calls = <<>>
    /\ out = NoCall

SpecInputs ==
    InputInit /\ [][Next]_vars

(***************************************************************************)
(* Buffers cut short: the caller holds the first bytes of a buffer that    *)
(* encode_table returned, and reads them with decode_table, get_table and  *)
(* get_index.                                                              *)
(***************************************************************************)
CutTables ==
    {[header |-> Headers[1], data |-> <<<<PyInt(1), Ascii(97)>>>>],
     [header |-> Headers[3], data |-> <<<<PyInt(0)>>, <<PyInt(5)>>>>]}

\* the buffer encode_table returns for the table
Whole(obj) ==
    encode_table(obj).res.val

CutInit ==
    /\ table \in CutTables
    /\ buffer \in {SubSeq(Whole(table), 1, k) : k \in 1..(Len(Whole(table)) - 1)}
    /\ written = table.data
    /\ calls = <<"encode_table">>
    /\ out = NoCall

CutNext ==
    \/ DecodeTable
    \/ GetTable
    \/ GetIndex

SpecCut ==
    CutInit /\ [][CutNext]_vars

(***************************************************************************)
(* The entry points called with a callback.  Every entry point ends with   *)
(*     if callback: callback(None, result)                                 *)
(*     return result                                                       *)
(* inside its try, and with                                                *)
(*     except Exception as e:                                              *)
(*         if callback: callback(e, None); return None                     *)
(*         raise                                                           *)
(* A callback is given by what it does when it is invoked: it returns, or  *)
(* it raises CallbackError when it gets a result, when it gets an error,   *)
(* or always.                                                              *)
(***************************************************************************)
Callbacks ==
    {"returns", "raises_on_result", "raises_on_error", "raises"}

\* callback(None, result) and callback(e, None) with a callback that does
\* not return
CallbackError ==
    "CallbackError"

\* an entry point that lets the error of its body escape to the caller and
\* tells the callback nothing of it
WithCallback_reraising(res, callback) ==
    IF res.ok
    THEN [callback |-> callback,
          received |-> <<[err |-> "None", result |-> res.val]>>,
          returned |-> Ok(res.val)]
    ELSE [callback |-> callback,
          received |-> <<>>,
          returned |-> Raise(res.val)]

\* the end of an entry point, res being what its body came to: the
\* invocations the callback received, in order, as [err, result] with "None"
\* and PyNone for None, and what the call returned or raised to its caller
WithCallback(res, callback) ==
    LET on_result == [err |-> "None", result |-> res.val]
        on_error(e) == [err |-> e, result |-> PyNone]
    IN  IF res.ok
        THEN (IF callback \in {"returns", "raises_on_error"}
              THEN [callback |-> callback,
                    received |-> <<on_result>>,
                    returned |-> Ok(res.val)]
              ELSE [callback |-> callback,
                    received |-> <<on_result, on_error(CallbackError)>>,
                    returned |-> IF callback = "raises"
                                 THEN Raise(CallbackError) ELSE Ok(PyNone)])
        ELSE [callback |-> callback,
              received |-> <<on_error(res.val)>>,
              returned |-> IF callback \in {"raises", "raises_on_error"}
                           THEN Raise(CallbackError) ELSE Ok(PyNone)]

\* a buffer whose schema block is cut: the length 5, then one byte
CutBuffer ==
    <<5, 10>>

CallbackTables ==
    {[header |-> FloatOnly, data |-> <<<<PyDec(5, 1)>>>>],
     [header |-> <<[name |-> "c", type |-> "double"]>>,
      data |-> <<<<PyInt(5)>>>>]}

CallbackInit ==
    /\ table \in CallbackTables
    /\ buffer \in {<<>>, CutBuffer}
    /\ written = <<>>
    /\ calls = <<>>
    /\ out = NoCall

CallbackNext ==
    \/ /\ calls = <<>>
       /\ \E callback \in Callbacks :
            With(encode_table(table), LAMBDA call :
            /\ out' = [op |-> "encode_table", arg |-> table, res |-> call.res]
                       @@ WithCallback(call.res, callback)
            /\ calls' = <<"encode_table">>
            /\ buffer' = IF call.res.ok THEN call.res.val ELSE buffer
            /\ written' = IF call.res.ok THEN table.data ELSE written
            /\ table' = [call.obj EXCEPT !.data = table.data])
    \/ /\ calls = <<>>
       /\ \E callback \in Callbacks :
            With(encode_verbose(Verbose(table)), LAMBDA call :
            /\ out' = [op |-> "encode_verbose", arg |-> table, res |-> call.res]
                       @@ WithCallback(call.res, callback)
            /\ calls' = <<"encode_verbose">>
            /\ buffer' = IF call.res.ok THEN call.res.val ELSE buffer
            /\ written' = IF call.res.ok THEN table.data ELSE written
            /\ table' = [call.obj EXCEPT !.data = table.data])
    \/ /\ buffer # <<>> /\ out.op \notin Queries /\ Len(calls) <= MaxAdds
       /\ \E callback \in Callbacks :
            \E data \in SeqsUpTo(RowsOf(table.header), MaxNew) :
              With(add_table(buffer, data), LAMBDA res :
              /\ out' = [op |-> "add_table", arg |-> data, res |-> res]
                         @@ WithCallback(res, callback)
              /\ calls' = Append(calls, "add_table")
              /\ buffer' = IF res.ok THEN res.val ELSE buffer
              /\ written' = IF res.ok THEN written \o data ELSE written
              /\ UNCHANGED table)
    \/ /\ buffer # <<>> /\ out.op \notin Queries /\ Len(calls) <= MaxAdds
       /\ \E callback \in Callbacks :
            \E data \in SeqsUpTo(RowsOf(table.header), MaxNew) :
              With(add_verbose(buffer, [r \in 1..Len(data) |->
                                          KeyedRow(table.header, data[r])]),
                   LAMBDA res :
              /\ out' = [op |-> "add_verbose", arg |-> data, res |-> res]
                         @@ WithCallback(res, callback)
              /\ calls' = Append(calls, "add_verbose")
              /\ buffer' = IF res.ok THEN res.val ELSE buffer
              /\ written' = IF res.ok THEN written \o data ELSE written
              /\ UNCHANGED table)
    \/ /\ buffer # <<>> /\ out.op \notin Queries
       /\ \E callback \in Callbacks :
            /\ out' = [op |-> "decode_table", arg |-> <<>>,
                        res |-> decode_table(buffer)]
                       @@ WithCallback(decode_table(buffer), callback)
            /\ UNCHANGED <<table, buffer, written, calls>>
    \/ /\ buffer # <<>> /\ out.op \notin Queries
       /\ \E callback \in Callbacks :
            /\ out' = [op |-> "decode_verbose", arg |-> <<>>,
                        res |-> decode_verbose(buffer)]
                       @@ WithCallback(decode_verbose(buffer), callback)
            /\ UNCHANGED <<table, buffer, written, calls>>
    \/ /\ buffer # <<>> /\ out.op \notin Queries
       /\ \E callback \in Callbacks : \E request \in Requests :
            /\ out' = [op |-> "get_table", arg |-> request,
                        res |-> get_table(buffer, request)]
                       @@ WithCallback(get_table(buffer, request), callback)
            /\ UNCHANGED <<table, buffer, written, calls>>
    \/ /\ buffer # <<>> /\ out.op \notin Queries
       /\ \E callback \in Callbacks : \E request \in Requests :
            /\ out' = [op |-> "get_verbose", arg |-> request,
                        res |-> get_verbose(buffer, request)]
                       @@ WithCallback(get_verbose(buffer, request), callback)
            /\ UNCHANGED <<table, buffer, written, calls>>
    \/ /\ buffer # <<>> /\ out.op \notin Queries
       /\ \E callback \in Callbacks :
            /\ out' = [op |-> "get_index", arg |-> <<>>,
                        res |-> get_index(buffer)]
                       @@ WithCallback(get_index(buffer), callback)
            /\ UNCHANGED <<table, buffer, written, calls>>

SpecCallback ==
    CallbackInit /\ [][CallbackNext]_vars

(***************************************************************************)
(* TransformInteger on its own: a value and a transform are drawn, parse   *)
(* is applied to the value and recover to what parse returned.             *)
(***************************************************************************)
TransformValues ==
    {PyInt(0), PyInt(1), PyInt(7), PyInt(-200), PyInt(1000), PyInt(100000),
     PyDec(5, 1), PyDec(25, 2), PyDec(29, 2), PyDec(-1875, 3), PyDec(123, 2),
     PyDec(-41123456, 6)}

Transforms ==
    {NoFields,
     [offset |-> 3],
     [decimals |-> 2],
     [decimals |-> 5],
     [multip |-> 4],
     [multip |-> -8, decimals |-> 3],
     [offset |-> 1, multip |-> 2, decimals |-> 1],
     [offset |-> -42, multip |-> 1000, decimals |-> 3, sequence |-> FALSE],
     [offset |-> -42, multip |-> 1000000, decimals |-> 6],
     [offset |-> 10, multip |-> 0]}

TransformInit ==
    /\ table \in [value : TransformValues, transform : Transforms]
    /\ buffer = <<>>
    /\ written = <<>>
    /\ calls = <<>>
    /\ out = NoCall

Parse ==
    /\ out = NoCall
    /\ out' = [op |-> "parse", arg |-> table.value,
               res |-> parse(table.value, PyNone, table.transform)]
    /\ UNCHANGED <<table, buffer, written, calls>>

Recover ==
    /\ out.op = "parse"
    /\ out' = [op |-> "recover", arg |-> out.res,
               res |-> recover(out.res, PyNone, table.transform)]
    /\ UNCHANGED <<table, buffer, written, calls>>

TransformNext ==
    \/ Parse
    \/ Recover

SpecTransform ==
    TransformInit /\ [][TransformNext]_vars

(***************************************************************************)
(* Two calls of encode_table on tables that share their header: the caller *)
(* keeps the list of field records and passes it again with other rows.    *)
(* calculate_all_stats copies the table's dict only, so the field records  *)
(* the second call gets are the ones the first call wrote its stats into.  *)
(* The argument recorded for the second call is the table as the caller    *)
(* built it, the header of the first call's argument with the new rows.    *)
(***************************************************************************)
HistoryHeaders ==
    {Headers[3], Headers[5]}

HistoryRows(header) ==
    With(CHOOSE h \in DOMAIN Headers : Headers[h] = header, LAMBDA h :
    Rows[h] \cup NoneRows[h])

HistoryInit ==
    /\ table \in UNION {{[header |-> h, data |-> d] :
                            d \in SeqsUpTo(HistoryRows(h), MaxRows) \ {<<>>}} :
                         h \in HistoryHeaders}
    /\ buffer = <<>>
    /\ written = <<>>
    /\ calls = <<>>
    /\ out = NoCall

HistoryNext ==
    \/ /\ calls = <<>>
       /\ Encoded("encode_table", encode_table(table))
    \/ /\ calls = <<"encode_table">>
       /\ \E data \in SeqsUpTo(HistoryRows(out.arg.header), 1) \ {<<>>} :
            With(encode_table([table EXCEPT !.data = data]), LAMBDA call :
            /\ calls' = Append(calls, "encode_table")
            /\ out' = [op |-> "encode_table",
                       arg |-> [out.arg EXCEPT !.data = data],
                       res |-> call.res]
            /\ buffer' = IF call.res.ok THEN call.res.val ELSE buffer
            /\ written' = IF call.res.ok THEN data ELSE written
            /\ table' = [call.obj EXCEPT !.data = data])

SpecHistory ==
    HistoryInit /\ [][HistoryNext]_vars

(***************************************************************************)
(* TransformInteger with a previous value, and the recover of              *)
(* pb_table_simple beside the one of pb_table.  The two parse are the same *)
(* code; the recover of pb_table_simple divides by multip whatever it is.  *)
(***************************************************************************)
simple_recover(stored_value, last_val, transform) ==
    LET offset   == Get(transform, "offset", 0)
        multip   == Get(transform, "multip", 1)
        decimals == Get(transform, "decimals", 0)
    IN  IF multip = 0 THEN Raise("ZeroDivisionError")
        ELSE Ok(PyAdd(PyTrueDiv(PyMul(IF ~Truthy(stored_value) THEN PyInt(0)
                                      ELSE stored_value,
                                      PyPow10(-decimals)),
                                PyInt(multip)),
                      IF UseLast(last_val, transform) THEN last_val
                      ELSE PyInt(offset)))

PrevValues ==
    {PyInt(0), PyInt(7), PyInt(-200), PyDec(25, 2)}

Prevs ==
    {PyNone, PyInt(0), PyInt(3)}

PrevTransforms ==
    {[offset |-> 10, multip |-> 0],
     [offset |-> 10, multip |-> 0, decimals |-> 2, sequence |-> TRUE],
     [offset |-> 10, sequence |-> TRUE],
     [offset |-> 10, multip |-> 2, decimals |-> 1, sequence |-> TRUE],
     [offset |-> 10, multip |-> 2]}

PrevInit ==
    /\ table \in [value : PrevValues, prev : Prevs, transform : PrevTransforms]
    /\ buffer = <<>>
    /\ written = <<>>
    /\ calls = <<>>
    /\ out = NoCall

PrevNext ==
    \/ /\ out = NoCall
       /\ out' = [op |-> "parse", arg |-> table.value,
                  res |-> Ok(parse(table.value, table.prev, table.transform))]
       /\ UNCHANGED <<table, buffer, written, calls>>
    \/ /\ out.op = "parse"
       /\ out' = [op |-> "recover", arg |-> out.res.val,
                  res |-> Ok(recover(out.res.val, table.prev, table.transform))]
       /\ UNCHANGED <<table, buffer, written, calls>>
    \/ /\ out.op = "parse"
       /\ out' = [op |-> "simple_recover", arg |-> out.res.val,
                  res |-> simple_recover(out.res.val, table.prev,
                                         table.transform)]
       /\ UNCHANGED <<table, buffer, written, calls>>

SpecPrev ==
    PrevInit /\ [][PrevNext]_vars

(***************************************************************************)
(* What the claims speak of.                                               *)
(***************************************************************************)
\* a == b of Python on two values
SameValue(a, b) ==
    /\ (a.t = "str") = (b.t = "str")
    /\ a.s = b.s /\ a.m = b.m /\ a.e = b.e

\* what a column of the type holds of v: a float column holds a single
Held(type, v) ==
    IF type = "float" THEN Single(v) ELSE v

SameRow(header, actual, expected) ==
    /\ Len(actual) = Len(header)
    /\ \A c \in 1..Len(header) :
         SameValue(actual[c], Held(header[c].type, expected[c]))

SameRows(header, actual, expected) ==
    /\ Len(actual) = Len(expected)
    /\ \A r \in 1..Len(expected) : SameRow(header, actual[r], expected[r])

\* the same for keyed rows
SameObjs(header, actual, expected) ==
    /\ Len(actual) = Len(expected)
    /\ \A r \in 1..Len(expected) :
         /\ DOMAIN actual[r] = {header[c].name : c \in 1..Len(header)}
         /\ \A c \in 1..Len(header) :
              SameValue(actual[r][header[c].name],
                        Held(header[c].type, expected[r][c]))

\* an integer of 0..2^32-1
InUInt32(v) ==
    v.s = 0 /\ v.e >= 0 /\ BLen(IntBits(v)) <= 32

\* a value of the column's type, an integer within the 32 bits of the type
ValidCell(type, v) ==
    CASE type = "uint" -> v.t = "int" /\ InUInt32(v)
      [] type = "int" -> v.t = "int" /\ v.e >= 0 /\ InInt32(v)
      [] type = "float" -> v.t = "float"
      [] type = "string" -> v.t = "str"
      [] OTHER -> v.t = "bool"

ValidRows(header, rows) ==
    \A r \in 1..Len(rows) :
        /\ Len(rows[r]) = Len(header)
        /\ \A c \in 1..Len(header) : ValidCell(header[c].type, rows[r][c])

ValidHeader(header) ==
    /\ header # <<>>
    /\ \A i \in 1..Len(header) : header[i].type \in valid_types

\* a valid table without transforms
ValidPlain(header, rows) ==
    /\ ValidHeader(header)
    /\ \A i \in 1..Len(header) : ~Has(header[i], "transform")
    /\ rows # <<>>
    /\ ValidRows(header, rows)

IsSequence(field_def) ==
    /\ Has(field_def, "transform")
    /\ Has(field_def.transform, "sequence")
    /\ field_def.transform.sequence

\* a valid table whose transforms are sequence transforms of integer columns
ValidSequenced(header, rows) ==
    /\ ValidHeader(header)
    /\ \A i \in 1..Len(header) :
         Has(header[i], "transform") =>
            IsSequence(header[i]) /\ header[i].type \in {"int", "uint"}
    /\ rows # <<>>
    /\ ValidRows(header, rows)

\* the request asks for rows there are, n being the number of rows
InRange(request, n) ==
    IF Has(request, "int") THEN request.int >= 0 /\ request.int < n
    ELSE \A k \in 1..Len(request.list) :
            request.list[k] >= 0 /\ request.list[k] < n

\* the rows of data the request asks for
Asked(header, result, request, data) ==
    IF Has(request, "int") THEN SameRow(header, result, data[request.int + 1])
    ELSE /\ Len(result) = Len(request.list)
         /\ \A k \in 1..Len(request.list) :
              SameRow(header, result[k], data[request.list[k] + 1])

\* the rows as the buffer stores them, before the reverse transforms
StoredRows(b) ==
    With(decode_header_delimited(b), LAMBDA head :
    decode_single_row_messages(head.val.header_obj.header,
                               Slice(b, head.val.data_offset, Len(b))).val)

\* the positions in the buffer at which the row frames start
FrameStarts(b) ==
    With(decode_header_delimited(b), LAMBDA head :
    With(RowOffsets(Slice(b, head.val.data_offset, Len(b)), 0), LAMBDA offsets :
    [k \in 1..Len(offsets) |-> head.val.data_offset + offsets[k]]))

\* the delta of v against the raw value before it, as stored
Delta(v, prev, transform) ==
    PyToInt(PyMul(PyMul(PySub(v, prev), PyInt(Get(transform, "multip", 1))),
                  PyPow10(Get(transform, "decimals", 0))))

\* 10^6 * |a - b| <= max(1, |b|), exactly
Within(a, b) ==
    With(AddExact(a, PyNeg(b)), LAMBDA d :
    ~NumLess(IF BLen(b.m) + b.e <= 0
             THEN PyInt(1) ELSE [b EXCEPT !.s = 0],
             [s |-> 0, m |-> BMul(d.m, NatToBits(10 ^ 6)), e |-> d.e]))

\* (v - offset) * multip * 10^decimals, exactly (decimals >= 0)
Product(v, transform) ==
    With(AddExact(v, PyNeg(PyInt(Get(transform, "offset", 0)))), LAMBDA d :
    With(PyInt(Get(transform, "multip", 1)), LAMBDA multip :
    MkNum("int", IF d.s = multip.s THEN 0 ELSE 1,
          BMul(BMul(d.m, multip.m),
               NatToBits(10 ^ Get(transform, "decimals", 0))),
          d.e + multip.e)))

\* the product is an integer that fits 32 bits, signed or unsigned
FitsTransform(v, transform) ==
    /\ Get(transform, "multip", 1) # 0
    /\ ~Get(transform, "sequence", FALSE)
    /\ With(Product(v, transform), LAMBDA p :
       p.e >= 0 /\ (InInt32(p) \/ InUInt32(p)))

\* the integer is within the range of the column type, as the format has it
InTypeRange(type, v) ==
    IF type = "uint" THEN InUInt32(v) ELSE v.e >= 0 /\ InInt32(v)

\* a table that fails to encode only if an integer is out of range
IntegerTable(obj) ==
    /\ ValidHeader(obj.header)
    /\ obj.data # <<>>
    /\ \A r \in 1..Len(obj.data) :
         /\ Len(obj.data[r]) = Len(obj.header)
         /\ \A c \in 1..Len(obj.header) :
              IF obj.header[c].type \in {"int", "uint"}
              THEN obj.data[r][c].t \in {"int", "float"}
              ELSE ValidCell(obj.header[c].type, obj.data[r][c])

\* every transformed integer of the table is within the range of its type
AllInTypeRange(obj) ==
    \A r \in 1..Len(obj.data) : \A c \in 1..Len(obj.header) :
        obj.header[c].type \in {"int", "uint"} =>
            With(TransformCell(obj, r, c), LAMBDA cell :
            cell.ok /\ InTypeRange(obj.header[c].type, cell.val))

(***************************************************************************)
(* The claims.                                                             *)
(***************************************************************************)
\* C1: array round-trip.  encode_table of a valid table without transforms
\* succeeds, and decode_table of the buffer returns the rows of the table in
\* order, exactly for string, bool, uint and int, as singles for float.
C1_ArrayRoundTrip ==
    /\ (out.op = "encode_table" /\ ValidPlain(out.arg.header, out.arg.data))
       => out.res.ok
    /\ (out.op = "decode_table" /\ calls = <<"encode_table">>
        /\ ValidPlain(table.header, written))
       => (out.res.ok /\ SameRows(table.header, out.res.val.data, written))

\* C2: append law.  Adding valid rows R to the buffer of a valid table T
\* (sequence columns included) succeeds, and decoding returns the rows of T
\* followed by R; add_verbose and decode_verbose do the same for keyed rows.
C2_AppendLaw ==
    /\ (out.op \in {"add_table", "add_verbose"}
        /\ calls \in {<<"encode_table", "add_table">>,
                      <<"encode_verbose", "add_verbose">>}
        /\ ValidSequenced(table.header, table.data)
        /\ ValidRows(table.header, out.arg))
       => (out.res.ok /\ written = table.data \o out.arg)
    /\ (out.op = "decode_table" /\ calls = <<"encode_table", "add_table">>
        /\ ValidSequenced(table.header, written))
       => (out.res.ok /\ SameRows(table.header, out.res.val.data, written))
    /\ (out.op = "decode_verbose" /\ calls = <<"encode_verbose", "add_verbose">>
        /\ ValidSequenced(table.header, written))
       => (out.res.ok /\ SameObjs(table.header, out.res.val.data, written))

\* C3: random access.  For a valid table without sequence columns
\* encode_table succeeds, and get_table of the buffer returns row i for an
\* index i in range and the rows of an index list in the order of the list.
C3_RandomAccess ==
    /\ (out.op = "encode_table" /\ ValidPlain(out.arg.header, out.arg.data)
        /\ ~Sequenced(out.arg.header))
       => out.res.ok
    /\ (out.op = "get_table" /\ calls = <<"encode_table">>
        /\ ValidPlain(table.header, written) /\ InRange(out.arg, Len(written)))
       => (out.res.ok /\ Asked(table.header, out.res.val, out.arg, written))

\* C4: sequence guard.  When a field of the header has transform.sequence
\* = true, get_table and get_verbose raise the sequenced-data error for every
\* request, and return no row.
C4_SequenceGuard ==
    (out.op \in {"get_table", "get_verbose"}
     /\ \E i \in 1..Len(table.header) : IsSequence(table.header[i]))
    => out.res = Raise(SequencedData)

\* C4 happens: get_table was asked for a row that is there (and for the
\* empty list, and for a row that is not there) of a sequenced buffer.
C4_Witness ==
    /\ out.op = "get_table"
    /\ \E i \in 1..Len(table.header) : IsSequence(table.header[i])
    /\ out.arg = [int |-> 0]
    /\ Len(written) > 0
    /\ out.res = Raise(SequencedData)

\* C5: the index returned by get_index for a buffer of encode_table or
\* add_table has as many entries as the buffer has rows.
C5_IndexLength ==
    (out.op = "get_index"
     /\ \A i \in 1..Len(calls) : calls[i] \in {"encode_table", "add_table"})
    => (out.res.ok /\ Len(out.res.val) = Len(decode_table(buffer).val.data))

\* C6: the k-th entry of get_index for a buffer of encode_table is the
\* position of the first byte of the k-th row frame.
C6_IndexOffsets ==
    (out.op = "get_index" /\ calls = <<"encode_table">>)
    => (out.res.ok /\ out.res.val = FrameStarts(buffer))

\* C7: sequence round-trip.  A valid table with a sequence column encodes,
\* every row after the first stores in that column the delta against the
\* raw row before (also when that row holds 0), and decode_table returns
\* the rows of the table exactly.
C7_SequenceRoundTrip ==
    /\ (out.op = "encode_table" /\ Sequenced(out.arg.header)
        /\ ValidSequenced(out.arg.header, out.arg.data))
       => (/\ out.res.ok
           /\ \A r \in 2..Len(written) : \A c \in 1..Len(table.header) :
                IsSequence(table.header[c]) =>
                   SameValue(StoredRows(buffer)[r][c],
                             Delta(written[r][c], written[r - 1][c],
                                   table.header[c].transform)))
    /\ (out.op = "decode_table" /\ calls = <<"encode_table">>
        /\ Sequenced(table.header) /\ ValidSequenced(table.header, written))
       => (out.res.ok /\ SameRows(table.header, out.res.val.data, written))

C9_AffineScenario ==
    /\ (out.op = "encode_table" /\ out.arg = AffineScenario)
       => (/\ out.res.ok
           /\ \A r \in 1..Len(written) : InInt32(StoredRows(buffer)[r][1]))
    /\ (out.op = "decode_table" /\ calls = <<"encode_table">>
        /\ written = AffineScenario.data)
       => (/\ out.res.ok
           /\ Len(out.res.val.data) = Len(written)
           /\ \A r \in 1..Len(written) :
                Within(out.res.val.data[r][1], written[r][1]))

\* C10: integer range.  encode_table succeeds exactly when every
\* transformed value of a uint column is within 0..2^32-1 and every
\* transformed value of an int column within -2^31..2^31-1.
C10_IntegerRange ==
    (out.op = "encode_table" /\ IntegerTable(out.arg))
    => (out.res.ok <=> AllInTypeRange(out.arg))

\* some index of the request is at or beyond n, the number of rows
BeyondEnd(request, n) ==
    IF Has(request, "int") THEN request.int >= n
    ELSE \E k \in 1..Len(request.list) : request.list[k] >= n

\* C11 as stated: get_table and get_verbose raise the out-of-range error,
\* and return no row, when the requested index or some index of the
\* requested list is at or beyond the row count of the buffer.
C11_OutOfRange ==
    (out.op \in {"get_table", "get_verbose"} /\ BeyondEnd(out.arg, Len(written)))
    => out.res = Raise(OnlyContains)

\* C11 as it holds: the same for a buffer without a sequence column; on a
\* buffer with a sequence column the sequenced-data error is raised.
C11_OutOfRangeUnsequenced ==
    (out.op \in {"get_table", "get_verbose"} /\ BeyondEnd(out.arg, Len(written)))
    => out.res = Raise(IF Sequenced(table.header) THEN SequencedData
                       ELSE OnlyContains)

\* C11 happens: a list whose first index is there and whose second is not
\* was asked of a buffer without a sequence column, and no row came back.
C11_Witness ==
    /\ out.op = "get_table"
    /\ ~Sequenced(table.header)
    /\ out.arg = [list |-> <<0, 2>>]
    /\ Len(written) = 2
    /\ out.res = Raise(OnlyContains)

\* C12: verbose round-trip.  encode_verbose of a valid table whose rows are
\* keyed by exactly the field names succeeds with the bytes encode_table
\* gives for the array form of the table, and decode_verbose of the buffer
\* returns the rows of the table, key by key and row by row.
C12_VerboseRoundTrip ==
    /\ (out.op = "encode_verbose" /\ ValidSequenced(out.arg.header, out.arg.data))
       => (out.res.ok /\ out.res = encode_table(out.arg).res)
    /\ (out.op = "decode_verbose" /\ calls = <<"encode_verbose">>
        /\ ValidSequenced(table.header, written))
       => (out.res.ok /\ SameObjs(table.header, out.res.val.data, written))

\* the object has a header and a list of rows
IsTable(obj) ==
    Has(obj, "header") /\ Has(obj, "data")

\* the zero value of a column type
Zero(type) ==
    CASE type = "string" -> PyStr(<<>>)
      [] type \in {"uint", "int"} -> PyInt(0)
      [] type = "float" -> PyToFloat(PyInt(0))
      [] OTHER -> PyBool(FALSE)

\* a table valid but for cells of None, of which it has some
WithNulls(header, rows) ==
    /\ ValidHeader(header)
    /\ rows # <<>>
    /\ \A r \in 1..Len(rows) :
         /\ Len(rows[r]) = Len(header)
         /\ \A c \in 1..Len(header) :
              rows[r][c].t = "none" \/ ValidCell(header[c].type, rows[r][c])
    /\ \E r \in 1..Len(rows) : \E c \in 1..Len(header) : rows[r][c].t = "none"

\* C13: missing values.  A table with array rows that hold None for a
\* column, or verbose rows that lack the key of a column, encodes, and the
\* decoded value of such a cell is the zero value of the column type: ""
\* for string, 0 for uint and int, 0.0 for float, false for bool.
C13_MissingValues ==
    /\ (out.op \in {"encode_table", "encode_verbose"} /\ IsTable(out.arg)
        /\ WithNulls(out.arg.header, out.arg.data))
       => out.res.ok
    /\ (out.op = "decode_table" /\ Len(calls) = 1
        /\ WithNulls(table.header, written))
       => (/\ out.res.ok
           /\ \A r \in 1..Len(written) : \A c \in 1..Len(table.header) :
                written[r][c].t = "none"
                => SameValue(out.res.val.data[r][c], Zero(table.header[c].type)))
    /\ (out.op = "decode_verbose" /\ Len(calls) = 1
        /\ WithNulls(table.header, written))
       => (/\ out.res.ok
           /\ \A r \in 1..Len(written) : \A c \in 1..Len(table.header) :
                written[r][c].t = "none"
                => SameValue(out.res.val.data[r][table.header[c].name],
                             Zero(table.header[c].type)))

\* C14: input immutability.  After encode_table and encode_verbose the
\* caller's table (header field records, meta record, rows) is equal to
\* what it was before the call, and add_table and add_verbose leave the
\* caller's table as it is.
C14_InputImmutability ==
    /\ [](out.op \in {"encode_table", "encode_verbose"} => table = out.arg)
    /\ [][out'.op \in {"add_table", "add_verbose"} => table' = table]_vars

\* the header the schema block of the buffer holds
StoredHeader(b) ==
    decode_header_delimited(b).val.header_obj.header

\* the values of column c that are not None, in row order
NonNull(rows, c) ==
    SelectSeq([r \in 1..Len(rows) |-> rows[r][c]], LAMBDA v : v.t # "none")

Least(values) ==
    CHOOSE v \in Range(values) : \A w \in Range(values) : ~NumLess(w, v)

Greatest(values) ==
    CHOOSE v \in Range(values) : \A w \in Range(values) : ~NumLess(v, w)

\* the arithmetic average, in double precision
Average(values) ==
    PyTrueDiv(sum([k \in 1..Len(values) |-> PyToFloat(values[k])]),
              PyInt(Len(values)))

\* the stats of the stored header are those of the raw rows, each seen
\* through As (the identity, or the rounding of the schema block)
StatsOf(header, rows, As(_)) ==
    \A c \in 1..Len(header) :
        With(NonNull(rows, c), LAMBDA values :
        IF header[c].type \notin {"int", "uint", "float"} \/ values = <<>>
        THEN ~Has(header[c], "stats")
        ELSE /\ Has(header[c], "stats")
             /\ SameValue(header[c].stats.start, As(values[1]))
             /\ SameValue(header[c].stats.end, As(values[Len(values)]))
             /\ SameValue(header[c].stats.min, As(Least(values)))
             /\ SameValue(header[c].stats.max, As(Greatest(values)))
             /\ SameValue(header[c].stats.mean, As(Average(values))))

ArrayCalls ==
    /\ calls # <<>> /\ calls[1] = "encode_table"
    /\ \A i \in 2..Len(calls) : calls[i] = "add_table"

\* C16: row-count invariant.  After encode_table and any add_table calls
\* the meta.row_count that decode_table reads from the buffer is the number
\* of rows it reads from the buffer.
C16_RowCount ==
    (out.op = "decode_table" /\ ArrayCalls)
    => (/\ out.res.ok
        /\ Has(out.res.val, "meta")
        /\ out.res.val.meta.row_count = Len(out.res.val.data))

\* C16 happens: a table that came with a row_count of 7 in its meta dict
\* was encoded with two rows, a row was added, and the buffer says 3.
C16_Witness ==
    /\ out.op = "decode_table" /\ calls = <<"encode_table", "add_table">>
    /\ Has(table, "meta")
    /\ out.res.ok
    /\ Len(out.res.val.data) = 3
    /\ out.res.val.meta.row_count = 3

\* the index old is the beginning of the index new
IndexPrefix(old, new) ==
    /\ old.ok /\ new.ok
    /\ Len(old.val) <= Len(new.val)
    /\ SubSeq(new.val, 1, Len(old.val)) = old.val

\* C17: index prefix stability under append.  When add_table has added
\* rows to a buffer none of whose columns is a sequence column, the index
\* of the new buffer begins with the index of the buffer before.
C17_IndexPrefix ==
    [][(out'.op = "add_table" /\ out'.res.ok /\ ~Sequenced(table.header))
       => IndexPrefix(get_index(buffer), get_index(buffer'))]_vars

\* the errors raised as ProtobufTableError
ProtobufTableErrors ==
    {NotValidFormat, NotAnArray, InvalidType, UnexpectedWireFormat,
     SequencedData, OnlyContains}

\* what encode_table is to refuse: no header or an empty one, a data that
\* is no list, a field whose type is none of the five
Refused(obj) ==
    \/ ~Has(obj, "header") \/ obj.header = <<>>
    \/ ~Has(obj, "data")
    \/ \E i \in 1..Len(obj.header) : obj.header[i].type \notin valid_types

\* C18: encode validation.  encode_table raises a ProtobufTableError and
\* gives no buffer when the header is missing or empty, when data is not a
\* list, or when the type of a field is none of string, uint, int, float,
\* bool.
C18_EncodeValidation ==
    (out.op = "encode_table" /\ Refused(out.arg))
    => (~out.res.ok /\ out.res.val \in ProtobufTableErrors /\ buffer = <<>>)

\* C18 happens: encode_table was given a header with a field of type
\* double and raised the invalid-type error.
C18_Witness ==
    /\ out.op = "encode_table"
    /\ Has(out.arg, "header") /\ Has(out.arg, "data")
    /\ out.arg.header # <<>> /\ out.arg.data # <<>>
    /\ \E i \in 1..Len(out.arg.header) : out.arg.header[i].type = "double"
    /\ out.res = Raise(InvalidType)
    /\ buffer = <<>>

\* two fields of the header have one name, or a field has the empty name
NameClash(header) ==
    \E i \in 1..Len(header) :
        \/ header[i].name = ""
        \/ \E j \in 1..Len(header) : j # i /\ header[j].name = header[i].name

\* C19: duplicate field names.  encode_table and encode_verbose raise an
\* invalid-schema error (a ProtobufTableError), and give no buffer, when
\* two fields of the header have the same name or a field name is empty.
C19_DuplicateNames ==
    (out.op \in {"encode_table", "encode_verbose"} /\ IsTable(out.arg)
     /\ NameClash(out.arg.header))
    => (~out.res.ok /\ out.res.val \in ProtobufTableErrors /\ buffer = <<>>)

\* some row has more or fewer values than the header has fields
ArityMismatch(header, rows) ==
    \E r \in 1..Len(rows) : Len(rows[r]) # Len(header)

\* C20: row arity.  encode_table and add_table raise an invalid-table
\* error (a ProtobufTableError) when some row is shorter or longer than
\* the header; a longer row is never encoded without its last values.
C20_RowArity ==
    /\ (out.op = "encode_table" /\ IsTable(out.arg)
        /\ ArityMismatch(out.arg.header, out.arg.data))
       => (~out.res.ok /\ out.res.val \in ProtobufTableErrors)
    /\ (out.op = "add_table" /\ ArityMismatch(table.header, out.arg))
       => (~out.res.ok /\ out.res.val \in ProtobufTableErrors)

\* the buffer ends inside the schema block or inside a row frame of the
\* buffer it was cut from: a declared length is beyond the end, or a
\* length varint is cut
CutInside(b, whole) ==
    /\ Len(b) < Len(whole)
    /\ \A k \in 1..Len(FrameStarts(whole)) : FrameStarts(whole)[k] # Len(b)

\* C21: corrupt buffers.  decode_table, get_table and get_index raise, and
\* return no table, rows or index, when the buffer ends inside the schema
\* block or inside a row frame.
C21_CorruptBuffers ==
    (out.op \in {"decode_table", "get_table", "get_index"}
     /\ CutInside(buffer, Whole(table)))
    => ~out.res.ok


\* a callback that returns when it is handed an error
ReturnsOnError(callback) ==
    callback \in {"returns", "raises_on_result"}

C29_CallbackOnce ==
    Has(out, "callback") => Len(out.received) = 1

\* the bytes of the Row message of one stored row: the fields 1..n in header
\* order, each cell set as the encoder sets it
RowBytes(header_fields, stored) ==
    Serialize(RowDescriptor(header_fields),
              [n \in {header_fields[i].name : i \in 1..Len(header_fields)} |->
                 SetCell(header_fields[CHOOSE i \in 1..Len(header_fields) :
                                          header_fields[i].name = n],
                         stored,
                         CHOOSE i \in 1..Len(header_fields) :
                            header_fields[i].name = n).val])

\* the bytes of the buffer after the schema block
RowStream(b) ==
    Slice(b, decode_header_delimited(b).val.data_offset, Len(b))

\* C23: the bytes encode_table emits after the schema block are, row after
\* row, the varint of the length of the Row message and then the Row
\* message, with no tag byte before the length and no message around the row.
C23_RowStream ==
    (out.op = "encode_table" /\ out.res.ok) =>
        RowStream(out.res.val)
          = Flatten([i \in 1..Len(StoredRows(out.res.val)) |->
                       With(RowBytes(StoredHeader(out.res.val),
                                     StoredRows(out.res.val)[i]),
                            LAMBDA row : VarintBytes(Len(row)) \o row)])

\* what the stream holds instead: per row the tag of field 1, the length of
\* a Data message, and in it the tag of field 1, the length of the Row and
\* the Row
C23_TaggedAndWrapped ==
    (out.op = "encode_table" /\ out.res.ok) =>
        RowStream(out.res.val)
          = Flatten([i \in 1..Len(StoredRows(out.res.val)) |->
                       With(RowBytes(StoredHeader(out.res.val),
                                     StoredRows(out.res.val)[i]),
                            LAMBDA row :
                       With(<<10>> \o VarintBytes(Len(row)) \o row,
                            LAMBDA data :
                            <<10>> \o VarintBytes(Len(data)) \o data))])

\* the fields of a meta record the round trip is to keep
MetaFields ==
    {"name", "owner", "link", "comment"}

\* C24: decode_table of an encoded table with a meta record gives a meta
\* record that has each of name, owner, link and comment the table's meta
\* has, under the same key and with an equal value.
C24_MetaRoundTrip ==
    (out.op = "decode_table" /\ out.res.ok /\ calls = <<"encode_table">>
     /\ IsTable(table) /\ Has(table, "meta"))
    => /\ Has(out.res.val, "meta")
       /\ \A key \in MetaFields \cap DOMAIN table.meta :
            /\ Has(out.res.val.meta, key)
            /\ out.res.val.meta[key] = table.meta[key]

\* owner, link and comment do come back under their keys
C24_OwnerLinkComment ==
    (out.op = "decode_table" /\ out.res.ok /\ calls = <<"encode_table">>
     /\ IsTable(table) /\ Has(table, "meta"))
    => /\ Has(out.res.val, "meta")
       /\ \A key \in (MetaFields \ {"name"}) \cap DOMAIN table.meta :
            /\ Has(out.res.val.meta, key)
            /\ out.res.val.meta[key] = table.meta[key]

\* what a transform adds or takes: prev for a sequenced value with a
\* previous value, 0 among them, and the offset otherwise
Base(prev, transform) ==
    IF Get(transform, "sequence", FALSE) /\ prev # PyNone
    THEN prev ELSE PyInt(Get(transform, "offset", 0))

\* C25: with multip = 0 every recover of the repository skips the division
\* and returns stored * 10^(-decimals) + offset, or + prev for a sequenced
\* value, instead of failing with a division by zero.
C25_MultipZero ==
    (out.op \in {"recover", "simple_recover"}
     /\ Get(table.transform, "multip", 1) = 0)
    => /\ out.res.ok
       /\ SameValue(out.res.val,
                    PyAdd(PyMul(out.arg,
                                PyPow10(-Get(table.transform, "decimals", 0))),
                          Base(table.prev, table.transform)))

\* the recover of pb_table does so when the previous value is not 0
C25_MultipZeroInPbTable ==
    (out.op = "recover" /\ Get(table.transform, "multip", 1) = 0
     /\ table.prev # PyInt(0))
    => /\ out.res.ok
       /\ SameValue(out.res.val,
                    PyAdd(PyMul(out.arg,
                                PyPow10(-Get(table.transform, "decimals", 0))),
                          Base(table.prev, table.transform)))

\* C26: parse(v, prev, T) is trunc(d * multip * 10^decimals) with d = v - prev
\* when sequence is true and prev is not null, prev = 0 included, and
\* d = v - offset otherwise; recover adds prev under the same condition.
C26_ForwardFormula ==
    /\ out.op = "parse"
       => out.res.val = Delta(table.value, Base(table.prev, table.transform),
                              table.transform)
    /\ (out.op = "recover" /\ Get(table.transform, "multip", 1) # 0)
       => SameValue(out.res.val,
                    PyAdd(PyTrueDiv(PyMul(out.arg,
                                          PyPow10(-Get(table.transform,
                                                       "decimals", 0))),
                                    PyInt(Get(table.transform, "multip", 1))),
                          Base(table.prev, table.transform)))

\* the formula holds when the previous value is not 0
C26_ForwardFormulaNonZero ==
    (out.op = "parse" /\ table.prev # PyInt(0))
    => out.res.val = Delta(table.value, Base(table.prev, table.transform),
                           table.transform)

\* C27: encode_table accepts a table with a valid, non-empty header and no
\* rows, and add_table of no rows succeeds on every written buffer.
C27_EmptyTables ==
    /\ (out.op = "encode_table" /\ IsTable(out.arg)
        /\ ValidHeader(out.arg.header) /\ out.arg.data = <<>>)
       => out.res.ok
    /\ (out.op = "add_table" /\ out.arg = <<>>) => out.res.ok

\* add_table of no rows on its own
C27_AddNothing ==
    (out.op = "add_table" /\ out.arg = <<>>) => out.res.ok

\* C28: encode_table of a table that shares its header field records with
\* a table encoded before returns what encode_table returns for a fresh copy
\* of the table; nothing the earlier call left behind is in the later buffer.
C28_HistoryIndependence ==
    (calls = <<"encode_table", "encode_table">> /\ out.res.ok)
    => /\ encode_table(out.arg).res.ok
       /\ out.res.val = encode_table(out.arg).res.val

\* the later buffer is that of a fresh copy when each numeric column of the
\* later table has a value
C28_WithValues ==
    (calls = <<"encode_table", "encode_table">> /\ out.res.ok
     /\ \A c \in 1..Len(out.arg.header) :
          NonNull(out.arg.data, c) # <<>>)
    => /\ encode_table(out.arg).res.ok
       /\ out.res.val = encode_table(out.arg).res.val

\* C30: get_table and get_verbose return rows only for indices i with
\* 0 <= i < row count; a request with any other index, a negative one among
\* them, alone or in a list, fails and returns no row.
C30_IndexDomain ==
    (out.op \in {"get_table", "get_verbose"} /\ calls = <<"encode_table">>
     /\ ~InRange(out.arg, Len(written)))
    => ~out.res.ok

\* the same for the indices that are not negative
C30_IndexDomainFromZero ==
    (out.op \in {"get_table", "get_verbose"} /\ calls = <<"encode_table">>
     /\ ~InRange(out.arg, Len(written))
     /\ IF Has(out.arg, "int") THEN out.arg.int >= 0
        ELSE \A k \in 1..Len(out.arg.list) : out.arg.list[k] >= 0)
    => ~out.res.ok
====
